---- MODULE Spec2Model ----
(***************************************************************************)
(* A model of edx_crawler.py: the deduplication of resource URLs over the  *)
(* aggregated units (remove_repeated_urls), the section filter             *)
(* (_filter_sections, parse_sections), the extraction of the video         *)
(* components of a unit (extract_video_component) and the two modes of the *)
(* extraction of the units of the pages (extract_all_units_in_sequence,    *)
(* extract_all_units_in_parallel), the walk over the courses, sections,    *)
(* subsections and units (save_html_to_file), the types of the quiz blocks *)
(* of a unit (extract_problem_comp), the start of a run (main) and the     *)
(* unit containers of a subsection page (crawl_units).                     *)
(***************************************************************************)
EXTENDS Integers, Sequences, FiniteSets, TLC

VARIABLES
    \* remove_repeated_urls
    all_units,          \* the aggregated mapping: page i of the dict -> its list of Units
    filtered_units,     \* remove_repeated_urls(all_units), once computed
    refiltered_units,   \* remove_repeated_urls(filtered_units), once computed
    dd_pc               \* "input" | "filtered" | "refiltered"

VARIABLES
    \* parse_sections
    fs_args,            \* args.filter_section: whether given, and its text
    fs_meant,           \* what the text was written to denote (not read by the program)
    fs_selections,      \* selections: course i of the dict -> its list of sections
    fs_result,          \* parse_sections(args, selections), once computed
    fs_pc               \* "input" | "parsed"

VARIABLES
    \* extract_video_component
    vx_pc,              \* "loop" | "languages" | "secondary" | "returned" | "raised"
    vx_block,           \* the video block being extracted: its id and its data-metadata
    vx_yt_link,         \* yt_link
    vx_video_source,    \* video_source
    vx_lang,            \* position of the for loop in txt2dict['transcriptLanguages']
    vx_exception,       \* `exception`, bound while the except clause of the fetch runs
    vx_video_meta,      \* video_meta
    vx_video_meta_list, \* video_meta_list
    vx_errorlog,        \* the entries of transcript_error_report.txt, in order
    vx_calls,           \* the fetches and external tools invoked so far, in order
    vx_files,           \* the files of the working directory
    vx_raised,          \* the exception that left extract_video_component, if any
    vx_declared         \* the transcript languages declared by the blocks read so far

VARIABLES
    \* extract_all_units_in_sequence, extract_all_units_in_parallel
    ex_urls,            \* urls
    ex_pages,           \* what extract_units gives for the url at each position of urls
    ex_sequence,        \* all_units of extract_all_units_in_sequence, once returned
    ex_units,           \* the result list of pool.map, filled as the workers finish
    ex_parallel,        \* all_units of extract_all_units_in_parallel, once returned
    ex_running,         \* the tasks of pool.map a worker of the pool is running
    ex_pc               \* "input" | "sequence" | "pool" | "parallel" | "filtered"

VARIABLES
    \* save_html_to_file
    wk_selections,      \* selections, with the page each subsection's url serves
    wk_pos,             \* the courses entered and subsections visited so far
    wk_strut,           \* tmp_course_strut
    wk_coursename,      \* coursename
    wk_count,           \* sub_idx, counter_unit, txt_id, prob_id, counter_video, video_id, comp_id
    wk_metasec_ls,      \* metasec_ls, as rows
    wk_dicts,           \* txt_dict_ls, prob_dict_ls, video_dict_ls, comp_dict_ls
    wk_fetched,         \* the urls save_html_to_file hands to get_page_contents, in order
    wk_files,           \* the unit files written, in order
    wk_output,          \* the files written after the walk
    wk_raised,          \* the exception that left save_html_to_file, if any
    wk_pc               \* "input" | "walk" | "written" | "raised"

VARIABLES
    \* extract_problem_comp
    qz_problems,        \* tmp: the contents of the problem blocks of the unit, in order
    qz_result,          \* what extract_problem_comp gives: type_div, or the exception
    qz_pc               \* "input" | "done"

VARIABLES
    \* main
    mn_args,            \* args
    mn_all_selections,  \* all_selections
    mn_selections,      \* selections
    mn_units,           \* whether the selections hold a unit at all
    mn_resp,            \* resp.get('success', False)
    mn_log,             \* the functions main has called, in order
    mn_exit,            \* whether the process has ended, and its exit status
    mn_pc               \* the statement of main that is next

VARIABLES
    \* crawl_units
    cr_page,            \* the subsection's page, whose main_content is subsection_page
    cr_unit,            \* unit
    cr_tmp,             \* tmp
    cr_idx,             \* idx
    cr_result,          \* what crawl_units gives: the list, or the exception
    cr_pc               \* "while" | "returned" | "raised"

dedupVars == <<all_units, filtered_units, refiltered_units, dd_pc>>

filterVars == <<fs_args, fs_meant, fs_selections, fs_result, fs_pc>>

videoVars == <<vx_pc, vx_block, vx_yt_link, vx_video_source, vx_lang, vx_exception,
               vx_video_meta, vx_video_meta_list, vx_errorlog, vx_calls, vx_files,
               vx_raised, vx_declared>>

extractVars == <<ex_urls, ex_pages, ex_sequence, ex_units, ex_parallel, ex_running, ex_pc>>

walkVars == <<wk_selections, wk_pos, wk_strut, wk_coursename, wk_count, wk_metasec_ls,
              wk_dicts, wk_fetched, wk_files, wk_output, wk_raised, wk_pc>>

quizVars == <<qz_problems, qz_result, qz_pc>>

mainVars == <<mn_args, mn_all_selections, mn_selections, mn_units, mn_resp, mn_log, mn_exit,
              mn_pc>>

crawlVars == <<cr_page, cr_unit, cr_tmp, cr_idx, cr_result, cr_pc>>

vars == <<dedupVars, filterVars, videoVars, extractVars, walkVars, quizVars, mainVars,
          crawlVars>>

\* what the operations of one part leave alone
exceptDedup == <<filterVars, videoVars, extractVars, walkVars, quizVars, mainVars,
                  crawlVars>>

exceptFilter == <<dedupVars, videoVars, extractVars, walkVars, quizVars, mainVars,
                  crawlVars>>

exceptVideo == <<dedupVars, filterVars, extractVars, walkVars, quizVars, mainVars,
                  crawlVars>>

exceptExtract == <<dedupVars, filterVars, videoVars, walkVars, quizVars, mainVars,
                  crawlVars>>

exceptWalk == <<dedupVars, filterVars, videoVars, extractVars, quizVars, mainVars,
                  crawlVars>>

exceptQuiz == <<dedupVars, filterVars, videoVars, extractVars, walkVars, mainVars,
                  crawlVars>>

exceptMain == <<dedupVars, filterVars, videoVars, extractVars, walkVars, quizVars, crawlVars>>

exceptCrawl == <<dedupVars, filterVars, videoVars, extractVars, walkVars, quizVars, mainVars>>

----------------------------------------------------------------------------
(* Bounds of the model *)

\* resource identifiers are 1..NumIds
NumIds == 2
\* pages + units + videos + mp4 urls + resource urls of an aggregated mapping
MaxSize == 7
\* courses of a selection
MaxCourses == 2
\* sections of a course
MaxSections == 3
\* the numbers a section filter is written for are -2..MaxFilter
MaxFilter == 11
\* page URLs handed to the extraction of the units
MaxUrls == 3
\* page URLs handed to the pool of workers
MaxTasks == 17
\* the indices 0 .. MaxContainers - 1 a unit container of a subsection page can have
MaxContainers == 6
\* courses + sections + subsections + units of the selections that are walked
MaxWalkSize == 7
\* problem blocks of a unit page
MaxProblems == 2
\* video blocks of a unit page
MaxBlocks == 2
\* transcript languages declared by the video blocks of a unit page, in total
MaxTranscripts == 3

----------------------------------------------------------------------------
(* Values *)

\* Python's None, as a video's absent video_youtube_url
None == 0

Ids == 1..NumIds

NotRun == <<"not run">>

RECURSIVE Concat(_)
Concat(ss) == IF ss = <<>> THEN <<>> ELSE Head(ss) \o Concat(Tail(ss))

Last(s) == s[Len(s)]

----------------------------------------------------------------------------
(* The aggregated unit mappings that are the inputs of remove_repeated_urls *)

Video(video_youtube_url, available_subs_url, sub_template_url, mp4_urls) ==
    [video_youtube_url |-> video_youtube_url,
     available_subs_url |-> available_subs_url,
     sub_template_url |-> sub_template_url,
     mp4_urls |-> mp4_urls]

Unit(videos, resources_urls) == [videos |-> videos, resources_urls |-> resources_urls]

\* pages + units + videos + mp4 urls + resource urls of a mapping
MappingSize(X) ==
    Len(X) + Len(Concat(
        [p \in 1..Len(X) |-> Concat(
            [u \in 1..Len(X[p]) |->
                <<1>> \o X[p][u].resources_urls
                     \o Concat([v \in 1..Len(X[p][u].videos) |->
                                  <<1>> \o X[p][u].videos[v].mp4_urls])])]))

\* every mapping obtained from X by one more page, unit, video or url at its end, in
\* traversal order (a unit's videos before its resources), so that every mapping is
\* obtained in exactly one way
Extensions(X) ==
    LET n == Len(X)
        units == X[n]
        m == Len(units)
        unit == units[m]
        k == Len(unit.videos)
        video == unit.videos[k]
        withUnit(u) == [X EXCEPT ![n] = [units EXCEPT ![m] = u]]
    IN  {Append(X, <<>>)}
        \cup (IF n > 0 THEN {[X EXCEPT ![n] = Append(units, Unit(<<>>, <<>>))]} ELSE {})
        \cup (IF n > 0 /\ m > 0
              THEN {withUnit(Unit(unit.videos, Append(unit.resources_urls, r))) : r \in Ids}
              ELSE {})
        \cup (IF n > 0 /\ m > 0 /\ unit.resources_urls = <<>>
              THEN {withUnit(Unit(Append(unit.videos, Video(y, "subs", "tmpl", <<>>)),
                                  unit.resources_urls)) : y \in Ids \cup {None}}
              ELSE {})
        \cup (IF n > 0 /\ m > 0 /\ k > 0 /\ unit.resources_urls = <<>>
              THEN {withUnit(Unit([unit.videos EXCEPT ![k] =
                                      Video(video.video_youtube_url, video.available_subs_url,
                                            video.sub_template_url, Append(video.mp4_urls, u))],
                                  unit.resources_urls)) : u \in Ids}
              ELSE {})

----------------------------------------------------------------------------
(* lib.utils.remove_duplicates: the elements of orig_list that are neither  *)
(* in seen nor earlier in orig_list, in order, and the grown seen-set       *)

RECURSIVE remove_duplicates(_, _)
remove_duplicates(orig_list, seen) ==
    IF orig_list = <<>> THEN [new_list |-> <<>>, new_seen |-> seen]
    ELSE LET elem == Head(orig_list)
             rest == remove_duplicates(Tail(orig_list), seen \cup {elem})
         IN  [new_list |-> IF elem \in seen THEN rest.new_list
                           ELSE <<elem>> \o rest.new_list,
              new_seen |-> rest.new_seen]

----------------------------------------------------------------------------
(* remove_repeated_urls *)

\* mutant: the video link is not looked up in the seen-set
UrlIsNewAlways(url, existing_urls) == TRUE

\* `video.video_youtube_url not in existing_urls`
UrlIsNew(url, existing_urls) == url \notin existing_urls

\* mutant: a video is kept only for its mp4 urls
KeepVideoForMp4(video_youtube_url, mp4_urls) == Len(mp4_urls) > 0

\* `video_youtube_url is not None or len(mp4_urls) > 0`
KeepVideo(video_youtube_url, mp4_urls) ==
    video_youtube_url /= None \/ Len(mp4_urls) > 0

\* mutant: every unit is emitted
KeepUnitAlways(videos, resources_urls) == TRUE

\* `len(videos) > 0 or len(resources_urls) > 0`
KeepUnit(videos, resources_urls) == Len(videos) > 0 \/ Len(resources_urls) > 0

\* `videos.append(Video(...))`
AppendVideo(videos, video) == Append(videos, video)

\* mutant: the unit is inserted at the head of the list
PrependUnit(reduced_units, unit) == <<unit>> \o reduced_units

\* `reduced_units.append(Unit(...))`
AppendUnit(reduced_units, unit) == Append(reduced_units, unit)

\* the loop over unit.videos: todo are the videos still to visit
RECURSIVE DedupVideos(_, _, _)
DedupVideos(todo, videos, existing_urls) ==
    IF todo = <<>> THEN [videos |-> videos, existing_urls |-> existing_urls]
    ELSE LET video == Head(todo)
             new == UrlIsNew(video.video_youtube_url, existing_urls)
             video_youtube_url == IF new THEN video.video_youtube_url ELSE None
             existing1 == IF new THEN existing_urls \cup {video.video_youtube_url}
                          ELSE existing_urls
             dd == remove_duplicates(video.mp4_urls, existing1)
             videos1 == IF KeepVideo(video_youtube_url, dd.new_list)
                        THEN AppendVideo(videos, Video(video_youtube_url,
                                                       video.available_subs_url,
                                                       video.sub_template_url,
                                                       dd.new_list))
                        ELSE videos
         IN  DedupVideos(Tail(todo), videos1, dd.new_seen)

\* the loop over the units of one page
RECURSIVE DedupUnits(_, _, _)
DedupUnits(todo, reduced_units, existing_urls) ==
    IF todo = <<>> THEN [reduced_units |-> reduced_units, existing_urls |-> existing_urls]
    ELSE LET unit == Head(todo)
             vs == DedupVideos(unit.videos, <<>>, existing_urls)
             dd == remove_duplicates(unit.resources_urls, vs.existing_urls)
             reduced1 == IF KeepUnit(vs.videos, dd.new_list)
                         THEN AppendUnit(reduced_units, Unit(vs.videos, dd.new_list))
                         ELSE reduced_units
         IN  DedupUnits(Tail(todo), reduced1, dd.new_seen)

\* the loop over all_units.items()
RECURSIVE DedupPages(_, _, _)
DedupPages(todo, filtered, existing_urls) ==
    IF todo = <<>> THEN filtered
    ELSE LET us == DedupUnits(Head(todo), <<>>, existing_urls)
         IN  DedupPages(Tail(todo), Append(filtered, us.reduced_units), us.existing_urls)

remove_repeated_urls(units) == DedupPages(units, <<>>, {})

----------------------------------------------------------------------------
(* The deduplication run: a mapping is aggregated (any mapping of at most  *)
(* MaxSize pages, units, videos and urls, grown at its end), it is filtered, *)
(* and the result is filtered again                                         *)

DedupStart(pc) ==
    /\ all_units = <<>>
    /\ filtered_units = NotRun
    /\ refiltered_units = NotRun
    /\ dd_pc = pc

Aggregate ==
    /\ dd_pc = "input"
    /\ MappingSize(all_units) < MaxSize
    /\ all_units' \in Extensions(all_units)
    /\ UNCHANGED <<filtered_units, refiltered_units, dd_pc>>
    /\ UNCHANGED exceptDedup

RemoveRepeatedUrls ==
    /\ dd_pc = "input"
    /\ filtered_units' = remove_repeated_urls(all_units)
    /\ dd_pc' = "filtered"
    /\ UNCHANGED <<all_units, refiltered_units>>
    /\ UNCHANGED exceptDedup

RemoveRepeatedUrlsAgain ==
    /\ dd_pc = "filtered"
    /\ refiltered_units' = remove_repeated_urls(filtered_units)
    /\ dd_pc' = "refiltered"
    /\ UNCHANGED <<all_units, filtered_units>>
    /\ UNCHANGED exceptDedup

DedupNext == Aggregate \/ RemoveRepeatedUrls \/ RemoveRepeatedUrlsAgain

----------------------------------------------------------------------------
(* The section filter: _filter_sections and parse_sections *)

Digits == <<"0", "1", "2", "3", "4", "5", "6", "7", "8", "9">>

ValueError == [raised |-> "ValueError", value |-> 0]

Returned(v) == [raised |-> "", value |-> v]

IsSpace(c) == c = " "

RECURSIVE LStrip(_)
LStrip(text) ==
    IF text /= <<>> /\ IsSpace(Head(text)) THEN LStrip(Tail(text)) ELSE text

RECURSIVE RStrip(_)
RStrip(text) ==
    IF text /= <<>> /\ IsSpace(Last(text)) THEN RStrip(SubSeq(text, 1, Len(text) - 1))
    ELSE text

DigitValue(c) == (CHOOSE d \in 1..10 : Digits[d] = c) - 1

IsDigit(c) == \E d \in 1..10 : Digits[d] = c

RECURSIVE DigitsValue(_, _)
DigitsValue(text, acc) ==
    IF text = <<>> THEN acc
    ELSE DigitsValue(Tail(text), 10 * acc + DigitValue(Head(text)))

\* Python's int(text) of a str: surrounding whitespace is dropped, then an optional sign
\* and one or more decimal digits; anything else raises ValueError
int(text) ==
    LET t == RStrip(LStrip(text))
        signed == t /= <<>> /\ Head(t) \in {"-", "+"}
        body == IF signed THEN Tail(t) ELSE t
    IN  IF body = <<>> \/ \E i \in 1..Len(body) : ~IsDigit(body[i]) THEN ValueError
        ELSE Returned((IF signed /\ Head(t) = "-" THEN -1 ELSE 1) * DigitsValue(body, 0))

\* mutant: the last section cannot be selected
IndexBelowNumSections(index, num_sections) == index > 0 /\ index < num_sections

\* `index > 0 and index <= num_sections`
IndexInRange(index, num_sections) == index > 0 /\ index <= num_sections

\* list[i] of Python, for an i in range
Item(list, i) == IF i >= 0 THEN list[i + 1] ELSE list[Len(list) + i + 1]

\* mutant: an index that is not valid selects no section
FilterSectionsOrNone(index, sections) ==
    LET parsed == int(index.text)
    IN  IF index.given /\ parsed.raised = "" /\ IndexInRange(parsed.value, Len(sections))
        THEN <<Item(sections, parsed.value - 1)>>
        ELSE <<>>

\* index is args.filter_section, a given str (parse_sections passes nothing else)
filter_sections(index, sections) ==
    LET num_sections == Len(sections)
        parsed == int(index.text)
    IN  IF index.given
        THEN IF parsed.raised = "" /\ IndexInRange(parsed.value, num_sections)
             THEN <<Item(sections, parsed.value - 1)>>
             ELSE sections
        ELSE sections

\* `not args.filter_section`: None or the empty str
NotGiven(filter_section) == ~filter_section.given \/ filter_section.text = <<>>

parse_sections(args, selections) ==
    IF NotGiven(args.filter_section) THEN selections
    ELSE [course \in DOMAIN selections |->
             filter_sections(args.filter_section, selections[course])]

(* The inputs: a filter text written for a number, or for no number *)

RECURSIVE Decimal(_)
Decimal(n) ==
    IF n < 0 THEN <<"-">> \o Decimal(-n)
    ELSE IF n < 10 THEN <<Digits[n + 1]>>
    ELSE Decimal(n \div 10) \o <<Digits[(n % 10) + 1]>>

Absent == [given |-> FALSE, text |-> <<>>]

Str(text) == [given |-> TRUE, text |-> text]

FilterInputs ==
    {[arg |-> Absent, meant |-> [kind |-> "absent", number |-> 0]]}
    \cup {[arg |-> Str(text), meant |-> [kind |-> "non-numeric", number |-> 0]] :
            text \in {<<>>, <<"a">>, <<"1", "a">>, <<"-">>, <<"1", ".", "5">>,
                      <<"-", "-", "1">>, <<"1", " ", "2">>, <<" ">>, <<"a", "l", "l">>}}
    \cup UNION {
            {[arg |-> Str(text), meant |-> [kind |-> "numeric", number |-> n]] :
                text \in {Decimal(n), <<" ">> \o Decimal(n), Decimal(n) \o <<" ">>}
                          \cup (IF n >= 0 THEN {<<"0">> \o Decimal(n), <<"+">> \o Decimal(n)}
                                ELSE {})}
            : n \in (-2)..MaxFilter}

Section(position) == [position |-> position]

SectionLists == {[i \in 1..n |-> Section(i)] : n \in 0..MaxSections}

Selections == UNION {[1..c -> SectionLists] : c \in 1..MaxCourses}

FilterStart(pc) ==
    /\ fs_result = NotRun
    /\ fs_pc = pc
    /\ IF pc = "input"
       THEN /\ \E input \in FilterInputs :
                  /\ fs_args = [filter_section |-> input.arg]
                  /\ fs_meant = input.meant
            /\ fs_selections \in Selections
       ELSE /\ fs_args = [filter_section |-> Absent]
            /\ fs_meant = [kind |-> "absent", number |-> 0]
            /\ fs_selections = <<>>

ParseSections ==
    /\ fs_pc = "input"
    /\ fs_result' = parse_sections(fs_args, fs_selections)
    /\ fs_pc' = "parsed"
    /\ UNCHANGED <<fs_args, fs_meant, fs_selections>>
    /\ UNCHANGED exceptFilter

----------------------------------------------------------------------------
(* extract_video_component: the values *)

\* Python values, tagged with their type; a str is a sequence of tokens
S(tokens) == <<"str", tokens>>

I(n) == <<"int", n>>

\* the float ms / 1000
F(ms) == <<"float", ms>>

L(items) == <<"list", items>>

D(items) == <<"dict", items>>

NA == S(<<"n/a">>)

EmptyStr == S(<<>>)

EmptyDict == <<>>

\* dict.update
Update(dict, items) == items @@ dict

BASE_URL == <<"https://courses.edx.org">>

TrialVideo == "trial_video.mp4"

\* the parameters section, subsection and unit of the call
Section1 == S(<<"01-Week 1">>)

Subsection1 == S(<<"Lecture">>)

Unit1 == S(<<"Unit A">>)

NoBlock == [id |-> <<>>, streams |-> <<>>, sources |-> <<>>, duration |-> 0,
            start |-> 0, transcriptLanguages |-> <<>>,
            transcriptTranslationUrl |-> <<>>]

\* txt2dict['transcriptLanguages'], in the order of its items
Languages == <<[key |-> "en", value |-> "English"], [key |-> "ja", value |-> "Japanese"]>>

\* the video blocks a unit page can hold as its n-th: with and without a stream
\* identifier, with and without declared sources, with a zero and a non-zero duration
VideoBlocks(n) ==
    {[id |-> <<"video">> \o Decimal(n), streams |-> streams, sources |-> sources,
      duration |-> duration, start |-> 0, transcriptLanguages |-> languages,
      transcriptTranslationUrl |-> <<"transcript/", "__lang__">>] :
        streams \in {<<>>, <<"1.00:", "x1y2">>},
        sources \in {<<>>, <<"a.mp4">>},
        duration \in {0, 30},
        languages \in {SubSeq(Languages, 1, k) : k \in 0..Len(Languages)}}

\* the transcript the platform serves for a language
TranscriptJson(key) ==
    [start |-> <<0, 2000>>, end |-> <<1500, 3000>>,
     text |-> <<S(<<key, "-hello">>), S(<<key, "-bye">>)>>]

\* the captions of the .vtt file the caption tool writes: h, m, s, ms
Captions(key) ==
    <<[start |-> <<0, 0, 1, 0>>, end |-> <<0, 0, 2, 500>>, text |-> S(<<key, "-hi">>)]>>

Call(tool, arg) == [tool |-> tool, arg |-> arg]

----------------------------------------------------------------------------
(* extract_video_component: the functions it calls *)

Min(a, b) == IF a < b THEN a ELSE b

\* zip(start_ls, end_ls)
ZipLen(start_ls, end_ls) == Min(Len(start_ls), Len(end_ls))

extract_speech_period(start_ls, end_ls) ==
    [i \in 1..ZipLen(start_ls, end_ls) |-> F(end_ls[i] - start_ls[i])]

extract_speech_times(start_ls, end_ls) ==
    [i \in 1..ZipLen(start_ls, end_ls) |-> <<F(start_ls[i]), F(end_ls[i])>>]

Millis(t) == t[1] * 3600 * 1000 + t[2] * 60 * 1000 + t[3] * 1000 + t[4]

vtt2json(captions) ==
    [start |-> [i \in 1..Len(captions) |-> Millis(captions[i].start)],
     end |-> [i \in 1..Len(captions) |-> Millis(captions[i].end)],
     text |-> [i \in 1..Len(captions) |-> captions[i].text]]

\* what youtube-dl --get-duration can do: print a duration as h:m:s, m:s or s, print
\* something else, or exit with an error
GetDurationOutcomes ==
    {[kind |-> "ok", timeformat |-> <<1, 30>>],
     [kind |-> "ok", timeformat |-> <<0>>],
     [kind |-> "CalledProcessError", timeformat |-> <<>>],
     [kind |-> "ValueError", timeformat |-> <<>>]}

\* videolen: the duration, or 0 when the tool fails; an output that is no number leaves
\* the function as a ValueError
videolen(yt_link, outcome) ==
    LET timeformat == outcome.timeformat
    IN  [raised |-> IF outcome.kind = "ValueError" THEN "ValueError" ELSE "",
         calls |-> <<Call("youtube-dl --get-duration", yt_link)>>,
         value |-> IF outcome.kind /= "ok" THEN I(0)
                   ELSE IF Len(timeformat) = 1 THEN I(timeformat[1])
                   ELSE IF Len(timeformat) = 2 THEN I(timeformat[1] * 60 + timeformat[2])
                   ELSE I(timeformat[1] * 3600 + timeformat[2] * 60 + timeformat[3])]

\* what the download and the probe of a platform-hosted video can do
ProbeOutcomes == {"ok", "HTTPError", "URLError", "ffmpeg.Error", "IndexError"}

\* extract_duration_from_non_YT_video: urlopen raises HTTPError or URLError before the
\* file is opened; ffmpeg.probe raises ffmpeg.Error, and probe['streams'][1] raises
\* IndexError for a file with one stream, both with the file written and not removed
extract_duration_from_non_YT_video(source_mp4, outcome, files) ==
    IF outcome \in {"HTTPError", "URLError"}
    THEN [raised |-> outcome, value |-> NA, files |-> files,
          calls |-> <<Call("urlopen", source_mp4)>>]
    ELSE IF outcome = "ok"
    THEN [raised |-> "", value |-> S(<<"12.345">>), files |-> files \ {TrialVideo},
          calls |-> <<Call("urlopen", source_mp4), Call("ffmpeg.probe", <<TrialVideo>>)>>]
    ELSE [raised |-> outcome, value |-> NA, files |-> files \cup {TrialVideo},
          calls |-> <<Call("urlopen", source_mp4), Call("ffmpeg.probe", <<TrialVideo>>)>>]

\* what youtube-dl --list-sub and --write-sub can do for a language
CaptionOutcomes ==
    {"ok", "list CalledProcessError", "has no subtitles", "language not listed",
     "download CalledProcessError", "IndexError"}

\* YT_transcript: '' unless the language is listed and its captions are downloaded; a
\* listing without its two 'Language formats' headers leaves the function as an IndexError
YT_transcript(yt_link, key, outcome) ==
    LET list == <<Call("youtube-dl --list-sub", yt_link)>>
        download == <<Call("youtube-dl --write-sub", yt_link \o <<key>>)>>
    IN  IF outcome \in {"list CalledProcessError", "has no subtitles", "language not listed"}
        THEN [raised |-> "", value |-> EmptyStr, calls |-> list]
        ELSE IF outcome = "IndexError"
        THEN [raised |-> "IndexError", value |-> EmptyStr, calls |-> list]
        ELSE IF outcome = "download CalledProcessError"
        THEN [raised |-> "", value |-> EmptyStr, calls |-> list \o download]
        ELSE [raised |-> "", value |-> D(vtt2json(Captions(key))), calls |-> list \o download]

\* len() of a str or a dict
PyLen(value) == IF value[1] = "dict" THEN Cardinality(DOMAIN value[2]) ELSE Len(value[2])

----------------------------------------------------------------------------
(* extract_video_component: the loop over the video blocks of a unit *)

\* `re.sub(r"1.00:", '', txt2dict['streams'])`
YtId(streams) ==
    LET NotSpeed(token) == token /= "1.00:"
    IN  SelectSeq(streams, NotSpeed)

\* mutant: the declared sources decide the source kind
HasDeclaredSources(txt2dict) == Len(txt2dict.sources) > 0

\* `len(txt2dict['streams']) == 0`: the block is platform-hosted
NoStreams(txt2dict) == Len(txt2dict.streams) = 0

\* mutant: every video falls back to the caption tool
NeverTrue(yt_link) == FALSE

\* `yt_link == 'n/a'`
NoYoutubeLink(yt_link) == yt_link = NA

\* mutant: the empty transcript is not stored
OnlySpeechPeriod(transcript_name) == "speech_period" :> NA

\* `{transcript_name:{"start":'',"end":'',"text":''},'speech_period':'n/a'}`
EmptyTranscript(transcript_name) ==
    (transcript_name :> D([start |-> EmptyStr, end |-> EmptyStr, text |-> EmptyStr]))
    @@ ("speech_period" :> NA)

VideoMeta(yt_link, video_source, duration, txt2dict) ==
    [section |-> Section1, subsection |-> Subsection1, unit |-> Unit1,
     youtube_url |-> yt_link, video_source |-> video_source,
     video_duration |-> duration, video_id |-> S(txt2dict.id), start |-> I(txt2dict.start)]

\* the entry appended to transcript_error_report.txt
ErrorReport(exception, video, language) ==
    [error |-> exception, video |-> video, language |-> language,
     section |-> Section1, subsection |-> Subsection1, unit |-> Unit1]

TranscriptName(key) == "transcript_" \o key

TranscriptUrl(txt2dict, key) ==
    LET Sub(token) == IF token = "__lang__" THEN key ELSE token
    IN  BASE_URL \o <<"/">>
        \o [i \in 1..Len(txt2dict.transcriptTranslationUrl) |->
              Sub(txt2dict.transcriptTranslationUrl[i])]

\* the exception leaves extract_video_component, and its caller save_html_to_file
Raise(exception) ==
    /\ vx_pc' = "raised"
    /\ vx_raised' = exception

\* the platform-hosted branch: the declared duration, probed when it is 0
HostedSource(txt2dict, outcome) ==
    LET video_source == txt2dict.sources
        declared == I(txt2dict.duration)
        probe == extract_duration_from_non_YT_video(<<video_source[1]>>, outcome, vx_files)
        probed == declared = I(0) /\ video_source /= <<>>
        duration == IF ~probed THEN declared
                    ELSE IF probe.raised \in {"HTTPError", "URLError"} THEN NA
                    ELSE probe.value
    IN  /\ vx_yt_link' = NA
        /\ vx_video_source' = L(video_source)
        /\ vx_calls' = IF probed THEN vx_calls \o probe.calls ELSE vx_calls
        /\ vx_files' = IF probed THEN probe.files ELSE vx_files
        /\ IF video_source = <<>>
           THEN Raise("IndexError") /\ UNCHANGED vx_video_meta
           ELSE IF probed /\ probe.raised \notin {"", "HTTPError", "URLError"}
           THEN Raise(probe.raised) /\ UNCHANGED vx_video_meta
           ELSE /\ vx_video_meta' =
                       Update(EmptyDict, VideoMeta(NA, S(<<video_source[1]>>), duration, txt2dict))
                /\ vx_pc' = "languages"
                /\ UNCHANGED vx_raised

\* the video-sharing branch: the duration of the duration tool, the declared one when
\* the tool gives 0
SharingSource(txt2dict, outcome) ==
    LET yt_link == <<"https://youtu.be/">> \o YtId(txt2dict.streams)
        len == videolen(yt_link, outcome)
        duration == IF len.value = I(0) THEN I(txt2dict.duration) ELSE len.value
    IN  /\ vx_yt_link' = S(yt_link)
        /\ vx_video_source' = NA
        /\ vx_calls' = vx_calls \o len.calls
        /\ UNCHANGED vx_files
        /\ IF len.raised /= ""
           THEN Raise(len.raised) /\ UNCHANGED vx_video_meta
           ELSE /\ vx_video_meta' =
                       Update(EmptyDict, VideoMeta(S(yt_link), NA, duration, txt2dict))
                /\ vx_pc' = "languages"
                /\ UNCHANGED vx_raised

\* the next video block of the page: its source kind and its duration
ReadVideoBlock ==
    /\ vx_pc = "loop"
    /\ Len(vx_video_meta_list) < MaxBlocks
    /\ \E txt2dict \in VideoBlocks(Len(vx_video_meta_list) + 1) :
          /\ vx_declared + Len(txt2dict.transcriptLanguages) <= MaxTranscripts
          /\ vx_declared' = vx_declared + Len(txt2dict.transcriptLanguages)
          /\ vx_block' = txt2dict
          /\ IF NoStreams(txt2dict)
             THEN \E outcome \in ProbeOutcomes : HostedSource(txt2dict, outcome)
             ELSE \E outcome \in GetDurationOutcomes : SharingSource(txt2dict, outcome)
    /\ vx_lang' = 1
    /\ UNCHANGED <<vx_exception, vx_video_meta_list, vx_errorlog>>
    /\ UNCHANGED exceptVideo

\* what the fetch of the platform's transcript can do: a JSON transcript, a URLError
\* (HTTPError is a URLError), or a body json.loads cannot parse
TranscriptOutcomes == {"ok", "URLError", "ValueError"}

\* one language of the video: the platform's transcript, and for a video without a
\* youtube link the empty transcript and the error report when the fetch fails
FetchTranscript ==
    /\ vx_pc = "languages"
    /\ vx_lang <= Len(vx_block.transcriptLanguages)
    /\ LET key == vx_block.transcriptLanguages[vx_lang].key
           value == vx_block.transcriptLanguages[vx_lang].value
           transcript_name == TranscriptName(key)
           transcript_raw == TranscriptJson(key)
       IN  /\ vx_calls' = Append(vx_calls,
                                 Call("get_page_contents", TranscriptUrl(vx_block, key)))
           /\ \E outcome \in TranscriptOutcomes :
                 IF outcome = "ok"
                 THEN /\ vx_video_meta' = Update(vx_video_meta,
                             (transcript_name :> L(transcript_raw.text))
                             @@ [speech_period |->
                                    L(extract_speech_period(transcript_raw.start,
                                                            transcript_raw.end)),
                                 speech_times |->
                                    L(extract_speech_times(transcript_raw.start,
                                                           transcript_raw.end))])
                      /\ vx_lang' = vx_lang + 1
                      /\ UNCHANGED <<vx_pc, vx_exception, vx_errorlog, vx_raised>>
                 ELSE IF outcome = "ValueError"
                 THEN /\ Raise(outcome)
                      /\ UNCHANGED <<vx_video_meta, vx_lang, vx_exception, vx_errorlog>>
                 ELSE IF NoYoutubeLink(vx_yt_link)
                 THEN /\ vx_video_meta' = Update(vx_video_meta, EmptyTranscript(transcript_name))
                      /\ vx_errorlog' = Append(vx_errorlog,
                             ErrorReport(outcome, <<"video file", vx_video_source[2][1]>>,
                                         value))
                      /\ vx_lang' = vx_lang + 1
                      /\ UNCHANGED <<vx_pc, vx_exception, vx_raised>>
                 ELSE /\ vx_exception' = outcome
                      /\ vx_pc' = "secondary"
                      /\ UNCHANGED <<vx_video_meta, vx_lang, vx_errorlog, vx_raised>>
    /\ UNCHANGED <<vx_block, vx_yt_link, vx_video_source, vx_video_meta_list, vx_files,
                   vx_declared>>
    /\ UNCHANGED exceptVideo

\* the same language through the caption tool: its captions, or the empty transcript
\* and the error report
FetchYoutubeTranscript ==
    /\ vx_pc = "secondary"
    /\ LET key == vx_block.transcriptLanguages[vx_lang].key
           value == vx_block.transcriptLanguages[vx_lang].value
           transcript_name == TranscriptName(key)
       IN  \E outcome \in CaptionOutcomes :
              LET yt == YT_transcript(vx_yt_link[2], key, outcome)
                  transcript_raw == yt.value
              IN  /\ vx_calls' = vx_calls \o yt.calls
                  /\ vx_exception' = ""
                  /\ IF yt.raised /= ""
                     THEN /\ Raise(yt.raised)
                          /\ UNCHANGED <<vx_video_meta, vx_lang, vx_errorlog>>
                     ELSE IF PyLen(transcript_raw) = 0
                     THEN /\ vx_video_meta' =
                                 Update(vx_video_meta, EmptyTranscript(transcript_name))
                          /\ vx_errorlog' = Append(vx_errorlog,
                                 ErrorReport(vx_exception, <<"video url", vx_yt_link[2]>>, value))
                          /\ vx_lang' = vx_lang + 1
                          /\ vx_pc' = "languages"
                          /\ UNCHANGED vx_raised
                     ELSE /\ vx_video_meta' = Update(vx_video_meta,
                                 (transcript_name :> L(transcript_raw[2].text))
                                 @@ [speech_period |->
                                        L(extract_speech_period(transcript_raw[2].start,
                                                                transcript_raw[2].end))])
                          /\ vx_lang' = vx_lang + 1
                          /\ vx_pc' = "languages"
                          /\ UNCHANGED <<vx_errorlog, vx_raised>>
    /\ UNCHANGED <<vx_block, vx_yt_link, vx_video_source, vx_video_meta_list, vx_files,
                   vx_declared>>
    /\ UNCHANGED exceptVideo

\* `video_meta_list.append(video_meta)`, after the last language
AppendVideoMeta ==
    /\ vx_pc = "languages"
    /\ vx_lang > Len(vx_block.transcriptLanguages)
    /\ vx_video_meta_list' = Append(vx_video_meta_list, vx_video_meta)
    /\ vx_pc' = "loop"
    /\ UNCHANGED <<vx_block, vx_yt_link, vx_video_source, vx_lang, vx_exception,
                   vx_video_meta, vx_errorlog, vx_calls, vx_files, vx_raised, vx_declared>>
    /\ UNCHANGED exceptVideo

\* `return video_meta_list`, after the last video block of the page
ReturnVideoMetaList ==
    /\ vx_pc = "loop"
    /\ vx_pc' = "returned"
    /\ UNCHANGED <<vx_block, vx_yt_link, vx_video_source, vx_lang, vx_exception,
                   vx_video_meta, vx_video_meta_list, vx_errorlog, vx_calls, vx_files,
                   vx_raised, vx_declared>>
    /\ UNCHANGED exceptVideo

VideoStart(pc) ==
    /\ vx_pc = pc
    /\ vx_block = NoBlock
    /\ vx_yt_link = NA
    /\ vx_video_source = NA
    /\ vx_lang = 1
    /\ vx_exception = ""
    /\ vx_video_meta = EmptyDict
    /\ vx_video_meta_list = <<>>
    /\ vx_errorlog = <<>>
    /\ vx_calls = <<>>
    /\ vx_files = {}
    /\ vx_raised = ""
    /\ vx_declared = 0

VideoNext ==
    \/ ReadVideoBlock
    \/ FetchTranscript
    \/ FetchYoutubeTranscript
    \/ AppendVideoMeta
    \/ ReturnVideoMetaList

----------------------------------------------------------------------------
(* The extraction of the units of the pages, in sequence and in parallel *)

\* the URLs of the pages
PageUrls == {"page/a", "page/b"}

\* what extract_units can give for a page: its list of units
PageUnits == {<<>>, <<"unit 1">>, <<"unit 2">>}

\* the slot of a task of pool.map whose worker has not finished
Pending == <<"pending", "task">>

\* `ThreadPool(16)`
PoolProcesses == 16

\* `dict(zip(urls, units))`: a dict keeps a key at its first position, with its last value
RECURSIVE DictZip(_, _, _)
DictZip(keys, values, dict) ==
    IF keys = <<>> \/ values = <<>> THEN dict
    ELSE LET Has(item) == item.key = Head(keys)
             Set(item) == IF Has(item) THEN [key |-> item.key, value |-> Head(values)]
                          ELSE item
         IN  DictZip(Tail(keys), Tail(values),
                     IF SelectSeq(dict, Has) /= <<>>
                     THEN [i \in 1..Len(dict) |-> Set(dict[i])]
                     ELSE Append(dict, [key |-> Head(keys), value |-> Head(values)]))

\* `extract_units(url, headers, file_formats)` for the url at position i of urls
extract_units(i) == ex_pages[i]

\* `[extract_units(url, headers, file_formats) for url in urls]`
extract_all_units_in_sequence(urls) ==
    DictZip(urls, [i \in 1..Len(urls) |-> extract_units(i)], <<>>)

\* mutant: the results are collected in the order the workers finish
CollectInFinishOrder(units, i, result) ==
    LET first == CHOOSE j \in 1..Len(units) :
                    units[j] = Pending /\ \A k \in 1..(j - 1) : units[k] /= Pending
    IN  [units EXCEPT ![first] = result]

\* pool.map gives the result of a task the position of its argument
Collect(units, i, result) == [units EXCEPT ![i] = result]

ExtractStart(pc) ==
    /\ ex_urls = <<>>
    /\ ex_pages = <<>>
    /\ ex_sequence = NotRun
    /\ ex_units = <<>>
    /\ ex_parallel = NotRun
    /\ ex_running = {}
    /\ ex_pc = pc

\* one more page URL, which may be one already in the list, and what its page holds
AddUrl ==
    /\ ex_pc = "input"
    /\ Len(ex_urls) < MaxUrls
    /\ \E url \in PageUrls : ex_urls' = Append(ex_urls, url)
    /\ \E units \in PageUnits : ex_pages' = Append(ex_pages, units)
    /\ UNCHANGED <<ex_sequence, ex_units, ex_parallel, ex_running, ex_pc>>
    /\ UNCHANGED exceptExtract

ExtractAllUnitsInSequence ==
    /\ ex_pc = "input"
    /\ ex_sequence' = extract_all_units_in_sequence(ex_urls)
    /\ ex_pc' = "sequence"
    /\ UNCHANGED <<ex_urls, ex_pages, ex_units, ex_parallel, ex_running>>
    /\ UNCHANGED exceptExtract

\* `pool.map(mapfunc, urls)` hands one task per url to the workers
PoolMap ==
    /\ ex_pc = "sequence"
    /\ ex_units' = [i \in 1..Len(ex_urls) |-> Pending]
    /\ ex_pc' = "pool"
    /\ UNCHANGED <<ex_urls, ex_pages, ex_sequence, ex_parallel, ex_running>>
    /\ UNCHANGED exceptExtract

\* the tasks no worker has taken from the queue of the pool
Queued == {i \in 1..Len(ex_units) : ex_units[i] = Pending /\ i \notin ex_running}

\* mutant: a task never waits for a worker
AlwaysIdle(running) == TRUE

\* `ThreadPool(16)`: one of the workers of the pool runs no task
WorkerIdle(running) == Cardinality(running) < PoolProcesses

\* a worker that runs no task takes the next task of the queue
WorkerTakes ==
    /\ ex_pc = "pool"
    /\ Queued /= {}
    /\ WorkerIdle(ex_running)
    /\ \E i \in Queued :
          /\ \A j \in Queued : i <= j
          /\ ex_running' = ex_running \cup {i}
    /\ UNCHANGED <<ex_urls, ex_pages, ex_sequence, ex_units, ex_parallel, ex_pc>>
    /\ UNCHANGED exceptExtract

\* a worker finishes the task of one url, whichever
WorkerFinishes ==
    /\ ex_pc = "pool"
    /\ \E i \in ex_running :
          /\ ex_units[i] = Pending
          /\ ex_units' = Collect(ex_units, i, extract_units(i))
          /\ ex_running' = ex_running \ {i}
    /\ UNCHANGED <<ex_urls, ex_pages, ex_sequence, ex_parallel, ex_pc>>
    /\ UNCHANGED exceptExtract

\* pool.map returns when every task is done: `all_units = dict(zip(urls, units))`
ExtractAllUnitsInParallel ==
    /\ ex_pc = "pool"
    /\ \A i \in 1..Len(ex_urls) : ex_units[i] /= Pending
    /\ ex_parallel' = DictZip(ex_urls, ex_units, <<>>)
    /\ ex_pc' = "parallel"
    /\ UNCHANGED <<ex_urls, ex_pages, ex_sequence, ex_units, ex_running>>
    /\ UNCHANGED exceptExtract

ExtractNext ==
    \/ AddUrl
    \/ ExtractAllUnitsInSequence
    \/ PoolMap
    \/ WorkerTakes
    \/ WorkerFinishes
    \/ ExtractAllUnitsInParallel

(* The pool of workers with more pages than workers, and remove_repeated_urls over *)
(* the mapping it returns                                                           *)

\* the units of a page, as remove_repeated_urls reads them: one unit with one video;
\* the pool is handed no page, one page, or more pages than it has workers
PoolPage(i) == <<Unit(<<Video(((i - 1) % NumIds) + 1, "subs", "tmpl", <<>>)>>, <<>>)>>

PoolStart ==
    /\ ex_urls \in {[i \in 1..n |-> IF i % 2 = 1 THEN "page/a" ELSE "page/b"] :
                       n \in {0, 1, MaxTasks}}
    /\ ex_pages = [i \in 1..Len(ex_urls) |-> PoolPage(i)]
    /\ ex_sequence = NotRun
    /\ ex_units = <<>>
    /\ ex_parallel = NotRun
    /\ ex_running = {}
    /\ ex_pc = "sequence"

\* `remove_repeated_urls(all_units)`: its argument is the mapping that
\* extract_all_units_in_parallel has returned, and existing_urls is a set of this call
RemoveRepeatedUrlsOfPool ==
    /\ ex_pc = "parallel"
    /\ dd_pc = "idle"
    /\ all_units' = [i \in 1..Len(ex_parallel) |-> ex_parallel[i].value]
    /\ filtered_units' = remove_repeated_urls(all_units')
    /\ dd_pc' = "filtered"
    /\ ex_pc' = "filtered"
    /\ UNCHANGED <<refiltered_units, ex_urls, ex_pages, ex_sequence, ex_units, ex_parallel,
                   ex_running>>
    /\ UNCHANGED <<filterVars, videoVars, walkVars, quizVars, mainVars, crawlVars>>

PoolNext ==
    \/ PoolMap
    \/ WorkerTakes
    \/ WorkerFinishes
    \/ ExtractAllUnitsInParallel
    \/ RemoveRepeatedUrlsOfPool

----------------------------------------------------------------------------
(* The walk over the courses, sections, subsections and units: save_html_to_file *)

\* Python's None, as a name or a title that is absent
PyNone == <<"None">>

Untitled == S(<<"Untitled">>)

\* `str(n).zfill(width)`
RECURSIVE ZFill(_, _)
ZFill(text, width) == IF Len(text) >= width THEN text ELSE ZFill(<<"0">> \o text, width)

\* the names a subsection can have: none, the empty one, or a name
SubsectionNames == {PyNone, EmptyStr, S(<<"Lecture">>)}

\* the units a subsection's page can hold: with a title and no block, with a title and
\* a text, a quiz and a video block, without the h2 of the title, and with a video block
\* on which extract_video_component raises
WalkUnits ==
    {[title |-> S(<<"Unit A">>), blocks |-> <<>>, video_raises |-> FALSE],
     [title |-> S(<<"Unit B">>), blocks |-> <<"html", "problem", "video">>,
      video_raises |-> FALSE],
     [title |-> PyNone, blocks |-> <<>>, video_raises |-> FALSE],
     [title |-> S(<<"Unit C">>), blocks |-> <<"video">>, video_raises |-> TRUE]}

Course(n) == [name |-> <<"course ">> \o Decimal(n), sections |-> <<>>]

WalkSection(position) == [position |-> position, name |-> <<"Week">>, subsections |-> <<>>]

Subsection(name, n) == [name |-> name, url |-> <<"subsection/">> \o Decimal(n), units |-> <<>>]

\* the subsections of the selections, in the order of the walk
Subsections(selections) ==
    Concat([c \in 1..Len(selections) |->
        Concat([x \in 1..Len(selections[c].sections) |->
            selections[c].sections[x].subsections])])

\* courses + sections + subsections + units
WalkSize(selections) ==
    Len(selections)
    + Len(Concat([c \in 1..Len(selections) |-> selections[c].sections]))
    + Len(Subsections(selections))
    + Len(Concat([b \in 1..Len(Subsections(selections)) |->
                     Subsections(selections)[b].units]))

\* the walk ends at a unit that raises
Raises(unit) == unit.title = PyNone \/ unit.video_raises

\* the selections with one more course, one more section in the last course, one more
\* subsection in the last section or one more unit on the last subsection's page; what
\* comes after a unit that raises is never walked, and is left out
WalkExtensions(X) ==
    LET c == Len(X)
        x == Len(X[c].sections)
        b == Len(X[c].sections[x].subsections)
        units == Concat([i \in 1..Len(Subsections(X)) |-> Subsections(X)[i].units])
    IN  IF \E i \in 1..Len(units) : Raises(units[i]) THEN {} ELSE
        {Append(X, Course(c + 1))}
        \cup (IF c = 0 THEN {}
              ELSE {[X EXCEPT ![c].sections = Append(@, WalkSection(x + 1))]})
        \cup (IF c = 0 \/ x = 0 THEN {}
              ELSE {[X EXCEPT ![c].sections[x].subsections =
                                  Append(@, Subsection(name, Len(Subsections(X)) + 1))] :
                       name \in SubsectionNames})
        \cup (IF c = 0 \/ x = 0 \/ b = 0 THEN {}
              ELSE {[X EXCEPT ![c].sections[x].subsections[b].units = Append(@, unit)] :
                       unit \in WalkUnits})

\* all_urls, as the caller builds it: `[subsection.url for selected_sections in
\* selections.values() for selected_section in selected_sections for subsection in
\* selected_section.subsections]`
AllUrls(selections) ==
    [b \in 1..Len(Subsections(selections)) |-> Subsections(selections)[b].url]

\* the steps of the three nested loops over the selections, in order
WalkSteps(selections) ==
    Concat([c \in 1..Len(selections) |->
        <<[kind |-> "course", course |-> c, section |-> 0, subsection |-> 0]>>
        \o Concat([x \in 1..Len(selections[c].sections) |->
              <<[kind |-> "section", course |-> c, section |-> x, subsection |-> 0]>>
              \o [b \in 1..Len(selections[c].sections[x].subsections) |->
                    [kind |-> "subsection", course |-> c, section |-> x,
                     subsection |-> b]]])])

\* `directory_name(selected_course.name)`
directory_name(name) == S(name)

\* `"%02d-%s" % (selected_section.position, selected_section.name)`
SectionDirname(section) == S(ZFill(Decimal(section.position), 2) \o <<"-">> \o section.name)

\* `str(counter_unit).zfill(4) + ".html"`
FilenameTemplate(counter_unit) == S(ZFill(Decimal(counter_unit), 4) \o <<".html">>)

\* an entry of one of the dicts of blocks: its key and its labels
BlockEntry(key, strut) ==
    [key |-> key, section |-> strut.section, subsection |-> strut.subsection,
     unit |-> strut.unit]

\* a row of metasec_ls
MetaRow(strut, filename_template) ==
    [section |-> strut.section, subsection |-> strut.subsection, unit |-> strut.unit,
     htmlfile |-> filename_template]

\* mutant: every subsection reads the first url
SameSubIdx(sub_idx) == sub_idx

\* `sub_idx = sub_idx+1`
NextSubIdx(sub_idx) == sub_idx + 1

\* mutant: the counter restarts with every unit
SameCounterUnit(counter_unit) == 1

\* `counter_unit += 1`
NextCounterUnit(counter_unit) == counter_unit + 1

Blocks(unit, type) ==
    LET IsType(block) == block = type
    IN  SelectSeq(unit.blocks, IsType)

\* the body of `for idx,unit in enumerate(units)` for one unit; st holds the variables
\* the body reads and writes
WalkUnit(st, unit) ==
    LET filename_template == FilenameTemplate(st.count.counter_unit)
        files == Append(st.files, filename_template)
        strut == [st.strut EXCEPT !.unit = unit.title]
        rows == Append(st.rows, MetaRow(strut, filename_template))
        txt == IF Len(Blocks(unit, "html")) > 0
               THEN Append(st.dicts.txt,
                           BlockEntry(<<"text_block_">> \o ZFill(Decimal(st.count.txt_id), 4),
                                      strut))
               ELSE st.dicts.txt
        prob == IF Len(Blocks(unit, "problem")) > 0
                THEN Append(st.dicts.prob,
                            BlockEntry(<<"quiz_block_">>
                                       \o ZFill(Decimal(st.count.prob_id), 4), strut))
                ELSE st.dicts.prob
        videos == Blocks(unit, "video")
        video == st.dicts.video
                 \o [i \in 1..Len(videos) |->
                       BlockEntry(<<"video_block_">>
                                  \o ZFill(Decimal(st.count.counter_video + i - 1), 4), strut)]
        comp == st.dicts.comp
                \o [i \in 1..Len(unit.blocks) |->
                      BlockEntry(ZFill(Decimal(st.count.comp_id + i - 1), 4)
                                 \o <<"_", unit.blocks[i]>>, strut)]
    IN  IF unit.title = PyNone
        THEN [st EXCEPT !.files = files, !.raised = "AttributeError"]
        ELSE IF unit.video_raises
        THEN [st EXCEPT !.files = files, !.strut = strut, !.rows = rows,
                        !.dicts.txt = txt, !.dicts.prob = prob,
                        !.count.txt_id = @ + Len(Blocks(unit, "html")),
                        !.count.prob_id = @ + Len(Blocks(unit, "problem")),
                        !.raised = "ValueError"]
        ELSE [st EXCEPT !.files = files, !.strut = strut, !.rows = rows,
                        !.dicts = [txt |-> txt, prob |-> prob, video |-> video,
                                   comp |-> comp],
                        !.count.txt_id = IF Len(Blocks(unit, "html")) > 0 THEN @ + 1 ELSE @,
                        !.count.prob_id =
                            IF Len(Blocks(unit, "problem")) > 0 THEN @ + 1 ELSE @,
                        !.count.counter_video = @ + Len(videos),
                        !.count.video_id = IF Len(videos) > 0 THEN @ + 1 ELSE @,
                        !.count.counter_unit = NextCounterUnit(@),
                        !.count.comp_id = @ + Len(unit.blocks)]

\* `for idx,unit in enumerate(units)`, up to the unit that raises
RECURSIVE WalkUnitsOf(_, _)
WalkUnitsOf(st, units) ==
    IF units = <<>> \/ st.raised /= "" THEN st
    ELSE WalkUnitsOf(WalkUnit(st, Head(units)), Tail(units))

WalkStart(pc) ==
    /\ wk_selections = <<>>
    /\ wk_pos = 0
    /\ wk_strut = [section |-> PyNone, subsection |-> PyNone, unit |-> PyNone]
    /\ wk_coursename = PyNone
    /\ wk_count = [sub_idx |-> 0, counter_unit |-> 1, txt_id |-> 1, prob_id |-> 1,
                   counter_video |-> 1, video_id |-> 1, comp_id |-> 1]
    /\ wk_metasec_ls = <<>>
    /\ wk_dicts = [txt |-> <<>>, prob |-> <<>>, video |-> <<>>, comp |-> <<>>]
    /\ wk_fetched = <<>>
    /\ wk_files = <<>>
    /\ wk_output = NotRun
    /\ wk_raised = ""
    /\ wk_pc = pc

\* the selections grow by a course, a section, a subsection or a unit
Select ==
    /\ wk_pc = "input"
    /\ WalkSize(wk_selections) < MaxWalkSize
    /\ wk_selections' \in WalkExtensions(wk_selections)
    /\ UNCHANGED <<wk_pos, wk_strut, wk_coursename, wk_count, wk_metasec_ls, wk_dicts,
                   wk_fetched, wk_files, wk_output, wk_raised, wk_pc>>
    /\ UNCHANGED exceptWalk

\* save_html_to_file is called with the selections
SaveHtmlToFile ==
    /\ wk_pc = "input"
    /\ wk_pc' = "walk"
    /\ UNCHANGED <<wk_selections, wk_pos, wk_strut, wk_coursename, wk_count,
                   wk_metasec_ls, wk_dicts, wk_fetched, wk_files, wk_output, wk_raised>>
    /\ UNCHANGED exceptWalk

NextStep == WalkSteps(wk_selections)[wk_pos + 1]

HasNextStep(kind) ==
    /\ wk_pc = "walk"
    /\ wk_pos < Len(WalkSteps(wk_selections))
    /\ NextStep.kind = kind

\* `for selected_course, selected_sections in selections.items()`: the next course
EnterCourse ==
    /\ HasNextStep("course")
    /\ wk_pos' = wk_pos + 1
    /\ wk_coursename' = directory_name(wk_selections[NextStep.course].name)
    /\ wk_metasec_ls' = <<>>
    /\ UNCHANGED <<wk_selections, wk_strut, wk_count, wk_dicts, wk_fetched, wk_files,
                   wk_output, wk_raised, wk_pc>>
    /\ UNCHANGED exceptWalk

\* `for selected_section in selected_sections`: the next section
EnterSection ==
    /\ HasNextStep("section")
    /\ wk_pos' = wk_pos + 1
    /\ wk_strut' = [wk_strut EXCEPT !.section =
           SectionDirname(wk_selections[NextStep.course].sections[NextStep.section])]
    /\ UNCHANGED <<wk_selections, wk_coursename, wk_count, wk_metasec_ls, wk_dicts,
                   wk_fetched, wk_files, wk_output, wk_raised, wk_pc>>
    /\ UNCHANGED exceptWalk

\* what get_page_contents can do: the page, or a URLError (HTTPError is a URLError)
FetchOutcomes == {"ok", "URLError"}

\* `for subsection in selected_section.subsections`: the next subsection, from its
\* name to the last of its units
VisitSubsection ==
    /\ HasNextStep("subsection")
    /\ \E step \in {NextStep}, all_urls \in {AllUrls(wk_selections)} :
       LET c == step.course
           x == step.section
           b == step.subsection
           subsection == wk_selections[c].sections[x].subsections[b]
           name == IF subsection.name = PyNone THEN Untitled ELSE subsection.name
           strut == [wk_strut EXCEPT !.subsection = name]
       IN  \E st \in {WalkUnitsOf([count |-> [wk_count EXCEPT !.sub_idx = NextSubIdx(@)],
                                   strut |-> strut, rows |-> wk_metasec_ls,
                                   dicts |-> wk_dicts, files |-> wk_files, raised |-> ""],
                                  subsection.units)} :
           /\ wk_selections' =
                  [wk_selections EXCEPT ![c].sections[x].subsections[b].name = name]
           /\ wk_fetched' = Append(wk_fetched, all_urls[wk_count.sub_idx + 1])
           /\ \E outcome \in FetchOutcomes :
                 IF outcome /= "ok"
                 THEN /\ wk_raised' = outcome
                      /\ wk_pc' = "raised"
                      /\ wk_strut' = strut
                      /\ UNCHANGED <<wk_pos, wk_count, wk_metasec_ls, wk_dicts, wk_files>>
                 ELSE /\ wk_raised' = st.raised
                      /\ wk_pc' = IF st.raised /= "" THEN "raised" ELSE "walk"
                      /\ wk_pos' = IF st.raised /= "" THEN wk_pos ELSE wk_pos + 1
                      /\ wk_strut' = st.strut
                      /\ wk_count' = st.count
                      /\ wk_metasec_ls' = st.rows
                      /\ wk_dicts' = st.dicts
                      /\ wk_files' = st.files
    /\ UNCHANGED <<wk_coursename, wk_output>>
    /\ UNCHANGED exceptWalk

\* the files written after the loops, under the directory of the last course; without
\* a course coursename is not bound
WriteOutput ==
    /\ wk_pc = "walk"
    /\ wk_pos = Len(WalkSteps(wk_selections))
    /\ IF wk_coursename = PyNone
       THEN /\ wk_raised' = "UnboundLocalError"
            /\ wk_pc' = "raised"
            /\ UNCHANGED wk_output
       ELSE /\ wk_output' = [course |-> wk_coursename,
                             all_textcomp |-> wk_dicts.txt,
                             all_probcomp |-> wk_dicts.prob,
                             all_videocomp |-> wk_dicts.video,
                             all_comp |-> wk_dicts.comp,
                             metadata |-> wk_metasec_ls]
            /\ wk_pc' = "written"
            /\ UNCHANGED wk_raised
    /\ UNCHANGED <<wk_selections, wk_pos, wk_strut, wk_coursename, wk_count,
                   wk_metasec_ls, wk_dicts, wk_fetched, wk_files>>
    /\ UNCHANGED exceptWalk

WalkNext ==
    \/ Select
    \/ SaveHtmlToFile
    \/ EnterCourse
    \/ EnterSection
    \/ VisitSubsection
    \/ WriteOutput

----------------------------------------------------------------------------
(* The types of the quiz blocks: extract_problem_comp *)

\* an attribute of a tag: absent, or its value
NoAttr == [has |-> FALSE, value |-> <<>>]

Attr(value) == [has |-> TRUE, value |-> value]

\* the class attributes a div can have: none, the empty one, and lists of class tokens
DivClasses ==
    {NoAttr, Attr(<<>>), Attr(<<"choicegroup">>), Attr(<<"choicegroup", "capa_inputtype">>),
     Attr(<<"inputtype">>), Attr(<<"inputtype", "option-input">>),
     Attr(<<"inputtype", "text-input-dynamath">>), Attr(<<"wrapper-problem-response">>)}

\* the type attributes of the input tags a problem can have, in order
InputTypes ==
    {<<>>, <<Attr(<<"checkbox">>)>>, <<Attr(<<"radio">>)>>,
     <<Attr(<<"radio">>), Attr(<<"checkbox">>)>>,
     <<Attr(<<"checkbox">>), Attr(<<"radio">>)>>, <<NoAttr>>}

\* the content of a problem block: the class attributes of its divs, in the order of
\* findAll('div'), and the type attributes of its inputs; the first four divs have no
\* class that is read
ProblemContents ==
    {[divs |-> [i \in 1..4 |-> NoAttr], inputs |-> <<>>]}
    \cup {[divs |-> [i \in 1..5 |-> IF i = 5 THEN class ELSE NoAttr], inputs |-> inputs] :
             class \in DivClasses, inputs \in InputTypes}

\* what an expression gives: a value, or the exception it raises
Gives(value) == [raised |-> "", value |-> value]

Throws(exception) == [raised |-> exception, value |-> <<>>]

\* `list[i]`, i counted from 0
ListItem(list, i) ==
    IF i < Len(list) THEN Gives(list[i + 1]) ELSE Throws("IndexError")

\* `tag['class']`, `tag.attrs['type']`
AttrItem(attr) == IF attr.has THEN Gives(attr.value) ELSE Throws("KeyError")

\* mutant: every choice group is one of checkboxes
AnyInputType(multi_or_check) == TRUE

\* `multi_or_check == 'checkbox'`
IsCheckbox(multi_or_check) == multi_or_check = <<"checkbox">>

\* `each_problem_content.findAll('div')[4]['class'][1] == 'option-input'`
IsOptionInput(subclass) == subclass = "option-input"

\* the try block of one problem: the type, or the exception raised in it
TypeOfProblem(each_problem_content) ==
    LET div == ListItem(each_problem_content.divs, 4)
        class == AttrItem(div.value)
        type_div_tmp == ListItem(class.value, 0)
        input == ListItem(each_problem_content.inputs, 0)
        multi_or_check == AttrItem(input.value)
        subclass == ListItem(class.value, 1)
    IN  IF div.raised /= "" THEN div
        ELSE IF class.raised /= "" THEN class
        ELSE IF type_div_tmp.raised /= "" THEN type_div_tmp
        ELSE IF type_div_tmp.value = "choicegroup"
        THEN IF input.raised /= "" THEN input
             ELSE IF multi_or_check.raised /= "" THEN multi_or_check
             ELSE IF IsCheckbox(multi_or_check.value) THEN Gives("checkbox")
             ELSE Gives("multichoice")
        ELSE IF type_div_tmp.value = "inputtype"
        THEN IF subclass.raised /= "" THEN subclass
             ELSE IF IsOptionInput(subclass.value) THEN Gives("droplist")
             ELSE Gives("fillblank")
        ELSE type_div_tmp

\* `except KeyError: type_div_tmp = 'N/A'`; any other exception leaves the function
TypeDivTmp(each_problem_content) ==
    LET tried == TypeOfProblem(each_problem_content)
    IN  IF tried.raised = "KeyError" THEN Gives("N/A") ELSE tried

\* the loop over tmp: type_div, or the exception of the first problem that raises one
RECURSIVE TypeDiv(_, _)
TypeDiv(tmp, type_div) ==
    IF tmp = <<>> THEN Gives(type_div)
    ELSE LET type_div_tmp == TypeDivTmp(Head(tmp))
         IN  IF type_div_tmp.raised /= "" THEN Throws(type_div_tmp.raised)
             ELSE TypeDiv(Tail(tmp), Append(type_div, type_div_tmp.value))

extract_problem_comp(tmp) == TypeDiv(tmp, <<>>)

QuizStart(pc) ==
    /\ qz_problems = <<>>
    /\ qz_result = NotRun
    /\ qz_pc = pc

\* one more problem block on the unit's page
AddProblem ==
    /\ qz_pc = "input"
    /\ Len(qz_problems) < MaxProblems
    /\ \E content \in ProblemContents : qz_problems' = Append(qz_problems, content)
    /\ UNCHANGED <<qz_result, qz_pc>>
    /\ UNCHANGED exceptQuiz

ExtractProblemComp ==
    /\ qz_pc = "input"
    /\ qz_result' = extract_problem_comp(qz_problems)
    /\ qz_pc' = "done"
    /\ UNCHANGED qz_problems
    /\ UNCHANGED exceptQuiz

QuizNext == AddProblem \/ ExtractProblemComp

----------------------------------------------------------------------------
(* The start of a run: main *)

\* the exit statuses of lib.common.ExitCode
ExitCode ==
    [OK |-> 0, MISSING_CREDENTIALS |-> 1, WRONG_EMAIL_OR_PASSWORD |-> 2,
     MISSING_COURSE_URL |-> 3, INVALID_COURSE_URL |-> 4, UNKNOWN_PLATFORM |-> 5,
     NO_DOWNLOADABLE_VIDEO |-> 6]

\* `sorted(OPENEDX_SITES.keys())`
OPENEDX_SITES == {"edx", "hkust"}

\* the urls of the courses of the dashboard whose state is 'Started', in order
AvailableCourses == <<"course/1", "course/2">>

\* the section filters of a run: none, and those written for 0, for 2, for 9 and for "a"
MainFilters ==
    {input \in FilterInputs :
        input.arg.text \in {<<>>, Decimal(0), Decimal(2), Decimal(9), <<"a">>}
        /\ (input.arg.given => input.arg.text /= <<>>)}

\* the command lines of a run
MainArgs ==
    {[platform |-> platform, username |-> username, password |-> password,
      course_urls |-> course_urls, list_courses |-> list_courses,
      list_file_formats |-> list_file_formats, filter_section |-> filter.arg,
      filter_meant |-> filter.meant] :
        platform \in OPENEDX_SITES \cup {"moodle"},
        username \in {<<>>, <<"user">>},
        password \in {Absent, Str(<<"pw">>)},
        course_urls \in {<<>>, <<"course/1">>, <<"course/2", "course/1">>, <<"course/9">>},
        list_courses \in BOOLEAN,
        list_file_formats \in BOOLEAN,
        filter \in MainFilters}

Running == [exited |-> FALSE, status |-> 0, raised |-> ""]

\* `exit(status)`
Exited(status) == [exited |-> TRUE, status |-> status, raised |-> ""]

\* an exception that nothing catches ends the interpreter with a traceback and status 1
Uncaught(exception) == [exited |-> TRUE, status |-> 1, raised |-> exception]

\* `[available_course for available_course in available_courses for url in
\* args.course_urls if available_course.url == url]`
SelectedCourses(course_urls) ==
    LET Given(course) == \E i \in 1..Len(course_urls) : course_urls[i] = course
    IN  SelectSeq(AvailableCourses, Given)

MainStart(pc) ==
    /\ IF pc = "idle"
       THEN mn_args = [platform |-> "edx", username |-> <<>>, password |-> Absent,
                       course_urls |-> <<>>, list_courses |-> FALSE,
                       list_file_formats |-> FALSE, filter_section |-> Absent,
                       filter_meant |-> [kind |-> "absent", number |-> 0]]
       ELSE mn_args \in MainArgs
    /\ mn_all_selections = <<>>
    /\ mn_selections = <<>>
    /\ mn_units = FALSE
    /\ mn_resp = FALSE
    /\ mn_log = <<>>
    /\ mn_exit = Running
    /\ mn_pc = pc

\* the step calls a function, and exits with a status or goes on to the next statement
MainStep(called, exits, status, next) ==
    /\ mn_log' = mn_log \o called
    /\ IF exits
       THEN mn_exit' = Exited(status) /\ mn_pc' = "exited"
       ELSE mn_exit' = mn_exit /\ mn_pc' = next

\* `file_formats = parse_file_formats(args)`
ParseFileFormats ==
    /\ mn_pc = "parse_file_formats"
    /\ MainStep(<<"parse_file_formats">>, mn_args.list_file_formats, ExitCode.OK,
                "change_openedx_site")
    /\ UNCHANGED <<mn_args, mn_all_selections, mn_selections, mn_units, mn_resp>>
    /\ UNCHANGED exceptMain

\* `change_openedx_site(args.platform)`
ChangeOpenedxSite ==
    /\ mn_pc = "change_openedx_site"
    /\ MainStep(<<"change_openedx_site">>, mn_args.platform \notin OPENEDX_SITES,
                ExitCode.UNKNOWN_PLATFORM, "credentials")
    /\ UNCHANGED <<mn_args, mn_all_selections, mn_selections, mn_units, mn_resp>>
    /\ UNCHANGED exceptMain

\* the password is asked for when args has none; then `if not args.username or not
\* args.password`
Credentials ==
    /\ mn_pc = "credentials"
    /\ \E typed \in {<<>>, <<"pw">>} :
          LET asked == NotGiven(mn_args.password)
              password == IF asked THEN Str(typed) ELSE mn_args.password
          IN  /\ mn_args' = [mn_args EXCEPT !.password = password]
              /\ MainStep(IF asked THEN <<"getpass">> ELSE <<>>,
                          mn_args.username = <<>> \/ NotGiven(password),
                          ExitCode.MISSING_CREDENTIALS, "edx_get_headers")
    /\ UNCHANGED <<mn_all_selections, mn_selections, mn_units, mn_resp>>
    /\ UNCHANGED exceptMain

\* `headers = edx_get_headers()`
EdxGetHeaders ==
    /\ mn_pc = "edx_get_headers"
    /\ MainStep(<<"edx_get_headers">>, FALSE, ExitCode.OK, "edx_login")
    /\ UNCHANGED <<mn_args, mn_all_selections, mn_selections, mn_units, mn_resp>>
    /\ UNCHANGED exceptMain

\* `resp = edx_login(...)`, and `if not resp.get('success', False)`
EdxLogin ==
    /\ mn_pc = "edx_login"
    /\ mn_resp' \in BOOLEAN
    /\ MainStep(<<"edx_login">>, ~mn_resp', ExitCode.WRONG_EMAIL_OR_PASSWORD,
                "parse_courses")
    /\ UNCHANGED <<mn_args, mn_all_selections, mn_selections, mn_units>>
    /\ UNCHANGED exceptMain

\* the courses of the dashboard, and parse_courses
ParseCourses ==
    /\ mn_pc = "parse_courses"
    /\ LET called == <<"get_courses_info", "parse_courses">>
       IN  IF mn_args.list_courses
           THEN MainStep(called, TRUE, ExitCode.OK, "")
           ELSE IF Len(mn_args.course_urls) = 0
           THEN MainStep(called, TRUE, ExitCode.MISSING_COURSE_URL, "")
           ELSE MainStep(called, Len(SelectedCourses(mn_args.course_urls)) = 0,
                         ExitCode.INVALID_COURSE_URL, "parse_sections")
    /\ UNCHANGED <<mn_args, mn_all_selections, mn_selections, mn_units, mn_resp>>
    /\ UNCHANGED exceptMain

\* the sections of every selected course are fetched, with their subsections and the
\* units of these, then parse_sections and _display_selections
MainParseSections ==
    /\ mn_pc = "parse_sections"
    /\ mn_all_selections' \in
          [1..Len(SelectedCourses(mn_args.course_urls)) -> SectionLists]
    /\ mn_selections' = parse_sections(mn_args, mn_all_selections')
    /\ MainStep([c \in 1..Len(SelectedCourses(mn_args.course_urls)) |->
                    "get_available_sections"]
                \o <<"parse_sections", "_display_selections">>,
                FALSE, ExitCode.OK, "correct_urls")
    /\ mn_units' \in BOOLEAN
    /\ UNCHANGED <<mn_args, mn_resp>>
    /\ UNCHANGED exceptMain

\* `correct_urls(selections)`: a session logs in again, which takes the cookie
\* 'csrftoken' of the answer and then reads `args` and `headers`; these are names
\* of main alone, so the call raises before a unit is visited, nothing catches it, and
\* `save_unit_urls_to_file(args, selections)` is not reached
CorrectUrls ==
    /\ mn_pc = "correct_urls"
    /\ \E exception \in {"KeyError", "NameError"} :
          /\ mn_exit' = Uncaught(exception)
          /\ mn_log' = Append(mn_log, "correct_urls")
          /\ mn_pc' = "raised"
    /\ UNCHANGED <<mn_args, mn_all_selections, mn_selections, mn_units, mn_resp>>
    /\ UNCHANGED exceptMain

MainNext ==
    \/ ParseFileFormats
    \/ ChangeOpenedxSite
    \/ Credentials
    \/ EdxGetHeaders
    \/ EdxLogin
    \/ ParseCourses
    \/ MainParseSections
    \/ CorrectUrls

----------------------------------------------------------------------------
(* The unit containers of a subsection page: crawl_units *)

\* the div of a page whose id is "seq_contents_" + str(idx)
Div(idx) == <<"div", idx>>

\* the pages a subsection's url can serve: with or without the div of class
\* "container", which holds the divs of the given indices
SubsectionPages ==
    {[container |-> TRUE, ids |-> ids] : ids \in SUBSET (0..(MaxContainers - 1))}
    \cup {[container |-> FALSE, ids |-> {}]}

\* `main_content=soup.find("div", {"class": "container"})` is None
NoMainContent(page) == ~page.container

\* `subsection_page.find("div", {"id": id_name})`
Find(subsection_page, idx) == IF idx \in subsection_page.ids THEN Div(idx) ELSE PyNone

\* `list.remove(x)`: the list without the first item equal to x
Remove(list, x) ==
    IF \A i \in 1..Len(list) : list[i] /= x THEN Throws("ValueError")
    ELSE LET first == CHOOSE i \in 1..Len(list) :
                         list[i] = x /\ \A j \in 1..(i - 1) : list[j] /= x
         IN  Gives(SubSeq(list, 1, first - 1) \o SubSeq(list, first + 1, Len(list)))

CrawlStart(pc) ==
    /\ IF pc = "idle" THEN cr_page = [container |-> FALSE, ids |-> {}]
       ELSE cr_page \in SubsectionPages
    /\ cr_unit = <<>>
    /\ cr_tmp = <<>>
    /\ cr_idx = 0
    /\ cr_result = NotRun
    /\ cr_pc = pc

\* one pass of `while tmp is not None`
CrawlLoop ==
    /\ cr_pc = "while"
    /\ cr_tmp /= PyNone
    /\ IF NoMainContent(cr_page)
       THEN /\ cr_result' = Throws("AttributeError")
            /\ cr_pc' = "raised"
            /\ UNCHANGED <<cr_unit, cr_tmp, cr_idx>>
       ELSE /\ cr_tmp' = Find(cr_page, cr_idx)
            /\ cr_unit' = Append(cr_unit, cr_tmp')
            /\ cr_idx' = cr_idx + 1
            /\ UNCHANGED <<cr_result, cr_pc>>
    /\ UNCHANGED cr_page
    /\ UNCHANGED exceptCrawl

\* `unit.remove(None)` and `return unit`, after the loop
CrawlReturn ==
    /\ cr_pc = "while"
    /\ cr_tmp = PyNone
    /\ cr_result' = Remove(cr_unit, PyNone)
    /\ cr_pc' = IF cr_result'.raised = "" THEN "returned" ELSE "raised"
    /\ UNCHANGED <<cr_page, cr_unit, cr_tmp, cr_idx>>
    /\ UNCHANGED exceptCrawl

CrawlNext == CrawlLoop \/ CrawlReturn

----------------------------------------------------------------------------
(* The specifications *)

InitDedup == DedupStart("input") /\ FilterStart("idle") /\ VideoStart("idle")
                /\ ExtractStart("idle") /\ WalkStart("idle")
                /\ QuizStart("idle") /\ MainStart("idle") /\ CrawlStart("idle")

SpecDedup == InitDedup /\ [][DedupNext]_vars

InitFilter == DedupStart("idle") /\ FilterStart("input") /\ VideoStart("idle")
                /\ ExtractStart("idle") /\ WalkStart("idle")
                /\ QuizStart("idle") /\ MainStart("idle") /\ CrawlStart("idle")

SpecFilter == InitFilter /\ [][ParseSections]_vars

InitVideo == DedupStart("idle") /\ FilterStart("idle") /\ VideoStart("loop")
                /\ ExtractStart("idle") /\ WalkStart("idle")
                /\ QuizStart("idle") /\ MainStart("idle") /\ CrawlStart("idle")

SpecVideo == InitVideo /\ [][VideoNext]_vars

InitExtract == DedupStart("idle") /\ FilterStart("idle") /\ VideoStart("idle")
                  /\ ExtractStart("input") /\ WalkStart("idle")
                /\ QuizStart("idle") /\ MainStart("idle") /\ CrawlStart("idle")

SpecExtract == InitExtract /\ [][ExtractNext]_vars

InitWalk == DedupStart("idle") /\ FilterStart("idle") /\ VideoStart("idle")
               /\ ExtractStart("idle") /\ WalkStart("input") /\ QuizStart("idle")
               /\ MainStart("idle") /\ CrawlStart("idle")

SpecWalk == InitWalk /\ [][WalkNext]_vars

InitQuiz == DedupStart("idle") /\ FilterStart("idle") /\ VideoStart("idle")
               /\ ExtractStart("idle") /\ WalkStart("idle") /\ QuizStart("input")
               /\ MainStart("idle") /\ CrawlStart("idle")

SpecQuiz == InitQuiz /\ [][QuizNext]_vars

InitPool == DedupStart("idle") /\ FilterStart("idle") /\ VideoStart("idle")
               /\ PoolStart /\ WalkStart("idle") /\ QuizStart("idle")
               /\ MainStart("idle") /\ CrawlStart("idle")

SpecPool == InitPool /\ [][PoolNext]_vars

InitCrawl == DedupStart("idle") /\ FilterStart("idle") /\ VideoStart("idle")
                /\ ExtractStart("idle") /\ WalkStart("idle") /\ QuizStart("idle")
                /\ MainStart("idle") /\ CrawlStart("while")

SpecCrawl == InitCrawl /\ [][CrawlNext]_vars

InitMain == DedupStart("idle") /\ FilterStart("idle") /\ VideoStart("idle")
               /\ ExtractStart("idle") /\ WalkStart("idle") /\ QuizStart("idle")
               /\ MainStart("parse_file_formats") /\ CrawlStart("idle")

SpecMain == InitMain /\ [][MainNext]_vars

----------------------------------------------------------------------------
(* Properties of remove_repeated_urls *)

\* the references of a mapping to resource identifiers, in traversal order: page order,
\* then unit order, then a unit's videos (link, then mp4 urls) before its resources
VideoRefs(p, u, v, video) ==
    (IF video.video_youtube_url /= None
     THEN <<[page |-> p, unit |-> u, video |-> v, kind |-> "link",
             id |-> video.video_youtube_url]>>
     ELSE <<>>)
    \o [i \in 1..Len(video.mp4_urls) |->
          [page |-> p, unit |-> u, video |-> v, kind |-> "mp4", id |-> video.mp4_urls[i]]]

UnitRefs(p, u, unit) ==
    Concat([v \in 1..Len(unit.videos) |-> VideoRefs(p, u, v, unit.videos[v])])
    \o [i \in 1..Len(unit.resources_urls) |->
          [page |-> p, unit |-> u, video |-> 0, kind |-> "resource",
           id |-> unit.resources_urls[i]]]

Refs(X) ==
    Concat([p \in 1..Len(X) |->
              Concat([u \in 1..Len(X[p]) |-> UnitRefs(p, u, X[p][u])])])

\* the positions of refs that hold the first occurrence of their identifier, ascending
FirstOccurrences(refs) ==
    LET IsFirst(i) == \A j \in 1..(i - 1) : refs[j].id /= refs[i].id
    IN  SelectSeq([i \in 1..Len(refs) |-> i], IsFirst)

SameUnit(r, q) == r.page = q.page /\ r.unit = q.unit

SameVideo(r, q) == SameUnit(r, q) /\ r.video = q.video

Filtered == dd_pc \in {"filtered", "refiltered"}

\* C1: the output holds exactly the first occurrences of the input's identifiers, in
\* the input's order, each in the page, of the kind and grouped into the unit and the
\* video of its first occurrence; every later occurrence is removed
C1_FirstOccurrenceKept ==
    Filtered =>
        LET in == Refs(all_units)
            out == Refs(filtered_units)
            first == FirstOccurrences(in)
        IN  /\ Len(filtered_units) = Len(all_units)
            /\ Len(out) = Len(first)
            /\ \A i \in 1..Len(out) :
                   /\ out[i].id = in[first[i]].id
                   /\ out[i].kind = in[first[i]].kind
                   /\ out[i].page = in[first[i]].page
            /\ \A i, j \in 1..Len(out) :
                   /\ SameUnit(out[i], out[j]) <=> SameUnit(in[first[i]], in[first[j]])
                   /\ SameVideo(out[i], out[j]) <=> SameVideo(in[first[i]], in[first[j]])

\* an identifier of the input occurs in two units, and the mapping was filtered
C1_Witness ==
    /\ dd_pc = "filtered"
    /\ LET in == Refs(all_units)
       IN  \E i, j \in 1..Len(in) :
              i < j /\ in[i].id = in[j].id /\ ~SameUnit(in[i], in[j])
    /\ Len(Refs(filtered_units)) < Len(Refs(all_units))

\* C2: filtering the filtered mapping again gives the filtered mapping
C2_Idempotent == dd_pc = "refiltered" => refiltered_units = filtered_units

\* the mapping filtered twice has a video without a link, the input shares an identifier
\* between a video link and a resource url, and the first filtering removed something
C2_Witness ==
    /\ dd_pc = "refiltered"
    /\ filtered_units /= all_units
    /\ \E p \in 1..Len(filtered_units) : \E u \in 1..Len(filtered_units[p]) :
          \E v \in 1..Len(filtered_units[p][u].videos) :
             filtered_units[p][u].videos[v].video_youtube_url = None
    /\ LET in == Refs(all_units)
       IN  \E i, j \in 1..Len(in) :
              in[i].id = in[j].id /\ in[i].kind = "link" /\ in[j].kind = "resource"

\* C3: every identifier of the input is in the output, and none is there twice
C3_EachIdentifierOnce ==
    Filtered =>
        LET in == Refs(all_units)
            out == Refs(filtered_units)
        IN  /\ {in[i].id : i \in 1..Len(in)} = {out[i].id : i \in 1..Len(out)}
            /\ \A i, j \in 1..Len(out) : out[i].id = out[j].id => i = j

\* one identifier of the input is a video link, an mp4 url and a resource url
C3_Witness ==
    /\ dd_pc = "filtered"
    /\ LET in == Refs(all_units)
       IN  \E i, j, k \in 1..Len(in) :
              /\ in[i].id = in[j].id /\ in[j].id = in[k].id
              /\ in[i].kind = "link" /\ in[j].kind = "mp4" /\ in[k].kind = "resource"

\* C4: the output has no video without link and mp4 urls, and no unit without videos
\* and resources
C4_NoEmptyPlaceholder ==
    Filtered =>
        \A p \in 1..Len(filtered_units) : \A u \in 1..Len(filtered_units[p]) :
            LET unit == filtered_units[p][u]
            IN  /\ ~(unit.videos = <<>> /\ unit.resources_urls = <<>>)
                /\ \A v \in 1..Len(unit.videos) :
                       ~(/\ unit.videos[v].video_youtube_url = None
                         /\ unit.videos[v].mp4_urls = <<>>)

\* a unit whose only content is a video with a link seen before is dropped from its page
C4_Witness ==
    /\ dd_pc = "filtered"
    /\ \E p \in 1..Len(all_units) :
          /\ Len(filtered_units[p]) < Len(all_units[p])
          /\ \E u \in 1..Len(all_units[p]) :
                /\ all_units[p][u].resources_urls = <<>>
                /\ Len(all_units[p][u].videos) = 1
                /\ all_units[p][u].videos[1].video_youtube_url /= None
                /\ \E r \in 1..Len(Refs(all_units)) :
                      /\ Refs(all_units)[r].id = all_units[p][u].videos[1].video_youtube_url
                      /\ ~SameUnit(Refs(all_units)[r], [page |-> p, unit |-> u])

----------------------------------------------------------------------------
(* Properties of the section filter *)

\* C5: a filter written for a number k with 1 <= k <= N yields the k-th of a course's N
\* sections alone; a filter that is absent, written for another number or for no number
\* yields the N sections as they are
C5_SectionFilter ==
    fs_pc = "parsed" =>
        /\ DOMAIN fs_result = DOMAIN fs_selections
        /\ \A course \in DOMAIN fs_selections :
              LET sections == fs_selections[course]
                  k == fs_meant.number
              IN  IF fs_meant.kind = "numeric" /\ 1 <= k /\ k <= Len(sections)
                  THEN fs_result[course] = <<sections[k]>>
                  ELSE fs_result[course] = sections

\* one numeric filter selects the last section of one course and, being out of range
\* for another course, leaves that course's sections as they are
C5_Witness ==
    /\ fs_pc = "parsed"
    /\ fs_meant.kind = "numeric"
    /\ \E c, d \in DOMAIN fs_selections :
          /\ Len(fs_selections[c]) = fs_meant.number
          /\ fs_meant.number >= 2
          /\ fs_result[c] = <<fs_selections[c][fs_meant.number]>>
          /\ Len(fs_selections[d]) < fs_meant.number
          /\ Len(fs_selections[d]) >= 1
          /\ fs_result[d] = fs_selections[d]

----------------------------------------------------------------------------
(* Properties of extract_video_component *)

CountCalls(calls, tool) ==
    LET IsTool(call) == call.tool = tool
    IN  Len(SelectSeq(calls, IsTool))

\* the step fetches the platform's transcript
PrimaryTried ==
    CountCalls(vx_calls', "get_page_contents") > CountCalls(vx_calls, "get_page_contents")

\* the step invokes the caption tool
SecondaryTried ==
    CountCalls(vx_calls', "youtube-dl --list-sub") > CountCalls(vx_calls, "youtube-dl --list-sub")

\* the language being resolved
CurrentKey == vx_block.transcriptLanguages[vx_lang].key

EmptyEntry == D([start |-> EmptyStr, end |-> EmptyStr, text |-> EmptyStr])

\* the step ends the resolution of the current language with a transcript, or with the
\* empty transcript
ResolvedWithText ==
    /\ vx_lang' = vx_lang + 1
    /\ TranscriptName(CurrentKey) \in DOMAIN vx_video_meta'
    /\ vx_video_meta'[TranscriptName(CurrentKey)][1] = "list"

ResolvedEmpty ==
    /\ vx_lang' = vx_lang + 1
    /\ TranscriptName(CurrentKey) \in DOMAIN vx_video_meta'
    /\ vx_video_meta'[TranscriptName(CurrentKey)] = EmptyEntry

\* zero declared sources / declared sources and no stream identifier to derive a link from
ExternalSharing(block) == block.sources = <<>>

PlatformHosted(block) == block.sources /= <<>> /\ block.streams = <<>>

VideoFinished == vx_pc \in {"loop", "returned"} /\ vx_video_meta_list /= <<>>

\* C7: the record of a finished video has an entry for every declared language: the
\* transcript's text, or the empty entry with its start, end and text
C7_EveryLanguageHasEntry ==
    VideoFinished =>
        \A i \in 1..Len(vx_block.transcriptLanguages) :
            LET name == TranscriptName(vx_block.transcriptLanguages[i].key)
                record == Last(vx_video_meta_list)
            IN  /\ name \in DOMAIN record
                /\ record[name][1] \in {"list", "dict"}
                /\ record[name][1] = "dict" =>
                      /\ DOMAIN record[name][2] = {"start", "end", "text"}
                      /\ record[name] = EmptyEntry

\* a finished video whose first language ended empty and whose second has a transcript
C7_Witness ==
    /\ VideoFinished
    /\ Len(vx_block.transcriptLanguages) = 2
    /\ Len(vx_errorlog) = 1
    /\ {"transcript_en", "transcript_ja"} \subseteq DOMAIN Last(vx_video_meta_list)
    /\ Last(vx_video_meta_list)["transcript_en"] = EmptyEntry
    /\ Last(vx_video_meta_list)["transcript_ja"][1] = "list"

\* the languages of vx_block are being resolved
TranscriptStage ==
    /\ "video_id" \in DOMAIN vx_video_meta
    /\ vx_video_meta["video_id"] = S(vx_block.id)
    /\ vx_calls /= <<>>
    /\ Last(vx_calls).tool \in {"get_page_contents", "youtube-dl --list-sub",
                                "youtube-dl --write-sub"}

\* C8: no failure of the transcript resolution leaves extract_video_component as an
\* exception
C8_TranscriptFailureNotFatal == ~(vx_pc = "raised" /\ TranscriptStage)

\* the watch link derived from a stream identifier
WatchLink(streams) ==
    LET NotSpeed(token) == token /= "1.00:"
    IN  S(<<"https://youtu.be/">> \o SelectSeq(streams, NotSpeed))

\* the record of vx_block is being built or was appended last
RecordOfBlock ==
    IF vx_pc \in {"languages", "secondary"} THEN vx_video_meta
    ELSE Last(vx_video_meta_list)

HasRecord == vx_pc \in {"languages", "secondary"} \/ VideoFinished

C10_DurationFailureNotFatal ==
    ~(/\ vx_pc = "raised"
      /\ vx_calls /= <<>>
      /\ Last(vx_calls).tool \in {"urlopen", "ffmpeg.probe", "youtube-dl --get-duration"})

\* the calls of the duration tool, of the download and of the media probe
DurationCalls(calls) ==
    CountCalls(calls, "youtube-dl --get-duration") + CountCalls(calls, "urlopen")
    + CountCalls(calls, "ffmpeg.probe")

\* the step reads a video block and resolves its duration
ResolvesDuration == vx_pc = "loop" /\ vx_pc' \in {"languages", "raised"}

\* the step that resolves a duration follows the order of C20: a declared duration
\* that is not 0 is the record's duration and no tool is called; the duration tool is
\* called for a block with a stream identifier only, the download and the probe for a
\* block without one only
DurationOrder ==
    ResolvesDuration =>
        /\ vx_block'.duration /= 0 =>
              /\ DurationCalls(vx_calls') = DurationCalls(vx_calls)
              /\ vx_pc' = "languages"
                    => vx_video_meta'["video_duration"] = I(vx_block'.duration)
        /\ CountCalls(vx_calls', "youtube-dl --get-duration")
              > CountCalls(vx_calls, "youtube-dl --get-duration")
              => vx_block'.duration = 0 /\ vx_block'.streams /= <<>>
        /\ CountCalls(vx_calls', "urlopen") > CountCalls(vx_calls, "urlopen")
              => vx_block'.duration = 0 /\ vx_block'.streams = <<>>

\* C20 as claimed: a declared non-zero duration is the result and no tool is
\* consulted; the duration tool is queried only for an external-sharing video whose
\* declared duration is 0, the media probe is performed only for a platform-hosted
\* video whose declared duration is 0, and the downloaded probe file exists at no
\* moment after the resolution, whether the probe succeeded or failed
C20_DurationOrder == [][DurationOrder]_vars /\ [](TrialVideo \notin vx_files)

\* the step resolves a declared language that is not the first of its video
LaterLanguageStep ==
    /\ vx_pc \in {"languages", "secondary"}
    /\ vx_pc' \in {"languages", "secondary"}
    /\ vx_lang >= 2
    /\ vx_lang <= Len(vx_block.transcriptLanguages)

\* the keys of the record that hold what the earlier languages gave: their texts, and
\* the timing data
EarlierKeys ==
    {TranscriptName(vx_block.transcriptLanguages[i].key) : i \in 1..(vx_lang - 1)}
    \cup {"speech_period", "speech_times"}

\* C21 as claimed: a step that resolves a later language of a video leaves the
\* transcript text of every earlier language, and the speech periods and the start/end
\* pairs extracted for an earlier language, as they were in the record
C21_EarlierLanguagesKept ==
    [][LaterLanguageStep =>
          \A name \in EarlierKeys \cap DOMAIN vx_video_meta :
              vx_video_meta[name] /= NA =>
                  /\ name \in DOMAIN vx_video_meta'
                  /\ vx_video_meta'[name] = vx_video_meta[name]]_vars

\* the step ends with an error absorbed: a download for the duration failed and the
\* record's duration is 'n/a', the caption tool ended the language after the platform's
\* transcript failed (with captions or with none), or the language ended empty
AbsorbsError ==
    \/ /\ vx_pc = "loop" /\ vx_pc' = "languages"
       /\ vx_video_meta'["video_duration"] = NA
    \/ vx_pc = "secondary" /\ vx_pc' = "languages"
    \/ vx_pc = "languages" /\ ResolvedEmpty

HasContext(entry) ==
    /\ entry.section = Section1
    /\ entry.subsection = Subsection1
    /\ entry.unit = Unit1
    /\ entry.video /= <<>>

\* C22 as claimed: every step that absorbs an error appends exactly one entry with the
\* section, the subsection, the unit and the video to the error report, be it a failed
\* platform transcript the caption tool recovers, a caption tool that yields nothing or
\* a failed duration lookup; and no step modifies or removes an entry of the report
C22_EveryAbsorbedErrorReported ==
    [][/\ Len(vx_errorlog') >= Len(vx_errorlog)
       /\ SubSeq(vx_errorlog', 1, Len(vx_errorlog)) = vx_errorlog
       /\ AbsorbsError =>
              /\ Len(vx_errorlog') = Len(vx_errorlog) + 1
              /\ HasContext(Last(vx_errorlog'))
      ]_vars

\* the record holds the speech periods and the start/end pairs of one transcript: a
\* pair for every period, and every period the difference of its pair
TimingOfOneTranscript(record) ==
    /\ {"speech_period", "speech_times"} \subseteq DOMAIN record
    /\ record["speech_period"][1] = "list"
    /\ record["speech_times"][1] = "list"
    /\ LET periods == record["speech_period"][2]
           times == record["speech_times"][2]
       IN  /\ Len(periods) = Len(times)
           /\ \A i \in 1..Len(periods) : periods[i] = F(times[i][2][2] - times[i][1][2])

\* C23 as claimed: a step that ends a language with a transcript, through the platform
\* or through the caption tool, leaves the record with the text of that language, the
\* speech periods of that transcript and its start/end pairs
C23_SameShapeOnBothPaths ==
    [][ResolvedWithText =>
          /\ Len(vx_video_meta'["speech_period"][2])
                = Len(vx_video_meta'[TranscriptName(CurrentKey)][2])
          /\ TimingOfOneTranscript(vx_video_meta')]_vars

----------------------------------------------------------------------------
(* Properties of the extraction of the units of the pages *)

\* C11: for the same URLs and the same pages, the mapping of the parallel extraction
\* is the mapping of the sequential one, whatever the order the workers finished in
C11_SameMapping == ex_pc = "parallel" => ex_parallel = ex_sequence

\* both extractions are done for three URLs, one of them repeated with a page that
\* changed between its two fetches
C11_Witness ==
    /\ ex_pc = "parallel"
    /\ Len(ex_urls) = 3
    /\ ex_urls[1] = ex_urls[3] /\ ex_urls[1] /= ex_urls[2]
    /\ ex_pages[1] /= ex_pages[3] /\ ex_pages[2] /= ex_pages[3]
    /\ Len(ex_parallel) = 2
    /\ ex_parallel[1].value = ex_pages[3]

----------------------------------------------------------------------------
(* Properties of the walk *)

IsSubsectionStep(step) == step.kind = "subsection"

\* the steps of the subsections whose visit has begun: those walked, and the one in
\* which an exception was raised
VisitedSteps ==
    LET steps == WalkSteps(wk_selections)
        begun == IF wk_pc = "raised" /\ wk_raised /= "UnboundLocalError"
                 THEN wk_pos + 1 ELSE wk_pos
    IN  SelectSeq(SubSeq(steps, 1, begun), IsSubsectionStep)

SubsectionAt(step) ==
    wk_selections[step.course].sections[step.section].subsections[step.subsection]

\* C12: the walk has fetched one page for each subsection it has visited and no other,
\* the page of the k-th visited subsection is the k-th fetched and has that subsection's
\* url, and no url is fetched twice, however many units the pages hold
C12_OneFetchPerSubsection ==
    wk_pc \in {"walk", "written", "raised"} =>
        /\ Len(wk_fetched) = Len(VisitedSteps)
        /\ \A k \in 1..Len(VisitedSteps) : wk_fetched[k] = SubsectionAt(VisitedSteps[k]).url
        /\ \A j, k \in 1..Len(wk_fetched) : j /= k => wk_fetched[j] /= wk_fetched[k]

\* the walk is over two subsections of different sections, the second with two units
C12_Witness ==
    /\ wk_pc = "written"
    /\ Len(VisitedSteps) = 2
    /\ VisitedSteps[1].section /= VisitedSteps[2].section
    /\ Len(SubsectionAt(VisitedSteps[2]).units) = 2
    /\ Len(wk_files) = 2

\* C13: a fetch error of a subsection's page does not end the walk
C13_FetchErrorSkipsSubsection == ~(wk_pc = "raised" /\ wk_raised = "URLError")

\* the entries the walk has made: the rows of the listing and the entries of the dicts
WalkEntries ==
    [i \in 1..Len(wk_metasec_ls) |->
        <<wk_metasec_ls[i].section, wk_metasec_ls[i].subsection, wk_metasec_ls[i].unit>>]
    \o [i \in 1..Len(wk_dicts.txt \o wk_dicts.prob \o wk_dicts.video \o wk_dicts.comp) |->
        LET entry == (wk_dicts.txt \o wk_dicts.prob \o wk_dicts.video \o wk_dicts.comp)[i]
        IN  <<entry.section, entry.subsection, entry.unit>>]

\* C16: every entry of the walk has a section, a subsection and a unit label that is
\* neither None nor empty, and a unit without a title does not end the walk
C16_LabelsNeverEmpty ==
    /\ \A i \in 1..Len(WalkEntries) :
          \A j \in 1..3 : WalkEntries[i][j] \notin {PyNone, EmptyStr}
    /\ wk_raised /= "AttributeError"

\* the units of the course whose listing is written, in the order of the walk, each with
\* the labels of its section and subsection
UnitsOfCourse(c) ==
    LET course == wk_selections[c]
    IN  Concat([x \in 1..Len(course.sections) |->
            Concat([b \in 1..Len(course.sections[x].subsections) |->
                [u \in 1..Len(course.sections[x].subsections[b].units) |->
                    [section |-> SectionDirname(course.sections[x]),
                     subsection |-> course.sections[x].subsections[b].name,
                     unit |-> course.sections[x].subsections[b].units[u].title]]])])

\* the number a file name is written for
FileNumber(filename) == int(SubSeq(filename[2], 1, Len(filename[2]) - 1)).value

\* C17: the listing written has one row per unit of its course, in the order of the walk
\* and with the unit's labels; the file names of the rows are the last of the unit files
\* written in the run; every file name is four digits or more and ".html", and the
\* numbers of the file names of the run increase by one from 1
C17_ListingRows ==
    wk_pc = "written" =>
        LET rows == wk_output.metadata
            units == UnitsOfCourse(Len(wk_selections))
            before == Len(wk_files) - Len(rows)
        IN  /\ wk_output.course = directory_name(wk_selections[Len(wk_selections)].name)
            /\ Len(rows) = Len(units)
            /\ \A k \in 1..Len(rows) :
                  /\ rows[k].section = units[k].section
                  /\ rows[k].subsection = units[k].subsection
                  /\ rows[k].unit = units[k].unit
                  /\ rows[k].htmlfile = wk_files[before + k]
            /\ \A k \in 1..Len(wk_files) :
                  /\ Len(wk_files[k][2]) >= 5
                  /\ Last(wk_files[k][2]) = ".html"
                  /\ FileNumber(wk_files[k]) = k

\* a listing of three rows, over two subsections
C17_Witness ==
    /\ wk_pc = "written"
    /\ Len(wk_output.metadata) = 3
    /\ Len(VisitedSteps) = 2
    /\ wk_output.metadata[3].htmlfile = S(<<"0", "0", "0", "3", ".html">>)

----------------------------------------------------------------------------
(* Properties of extract_problem_comp *)

\* the fifth div of a problem has the class, and the class the second token
FifthClass(content, class) ==
    /\ Len(content.divs) >= 5
    /\ content.divs[5].has
    /\ content.divs[5].value /= <<>>
    /\ content.divs[5].value[1] = class

HasSubclass(content) == Len(content.divs[5].value) >= 2

\* the problem has an input, and the first one a type
FirstInputTyped(content) == content.inputs /= <<>> /\ content.inputs[1].has

\* the type the claim gives a problem of an expected shape, "" for any other
ExpectedType(content) ==
    IF FifthClass(content, "choicegroup") /\ FirstInputTyped(content)
    THEN IF content.inputs[1].value = <<"checkbox">> THEN "checkbox" ELSE "multichoice"
    ELSE IF FifthClass(content, "inputtype") /\ HasSubclass(content)
    THEN IF content.divs[5].value[2] = "option-input" THEN "droplist" ELSE "fillblank"
    ELSE ""

\* C14: when extract_problem_comp returns, it gives one type per problem block, in the
\* order of the blocks: checkbox for a choicegroup whose first input is a checkbox,
\* multichoice for one whose first input has another type, droplist for an inputtype
\* whose second class is option-input, fillblank for one with another second class;
\* and it returns when every block has one of these shapes
C14_QuizTypes ==
    qz_pc = "done" =>
        /\ qz_result.raised = "" =>
              /\ Len(qz_result.value) = Len(qz_problems)
              /\ \A i \in 1..Len(qz_problems) :
                    ExpectedType(qz_problems[i]) /= "" =>
                        qz_result.value[i] = ExpectedType(qz_problems[i])
        /\ (\A i \in 1..Len(qz_problems) : ExpectedType(qz_problems[i]) /= "") =>
              qz_result.raised = ""

\* C14: a choice group of radio buttons before a drop list: multichoice, then droplist
C14_Witness ==
    /\ qz_pc = "done"
    /\ Len(qz_problems) = 2
    /\ qz_result = Gives(<<"multichoice", "droplist">>)
    /\ FifthClass(qz_problems[1], "choicegroup")
    /\ qz_problems[1].inputs = <<Attr(<<"radio">>), Attr(<<"checkbox">>)>>
    /\ qz_problems[2].divs[5] = Attr(<<"inputtype", "option-input">>)

\* C15: extract_problem_comp raises for no problem block, and every type it gives is
\* one of checkbox, multichoice, droplist, fillblank and the type for an unknown shape
C15_NeverRaises ==
    qz_pc = "done" =>
        /\ qz_result.raised = ""
        /\ \A i \in 1..Len(qz_result.value) :
              qz_result.value[i] \in {"checkbox", "multichoice", "droplist", "fillblank", "N/A"}

----------------------------------------------------------------------------
(* The start of a run *)

Called(name) == \E i \in 1..Len(mn_log) : mn_log[i] = name

\* the filter of the command line is written for no number, or for a number that is
\* the position of no section of the course
InvalidFilterFor(course) ==
    \/ mn_args.filter_meant.kind = "non-numeric"
    \/ /\ mn_args.filter_meant.kind = "numeric"
       /\ mn_args.filter_meant.number \notin 1..Len(mn_all_selections[course])

InvalidFilterParsed ==
    /\ Called("parse_sections")
    /\ \E course \in DOMAIN mn_all_selections : InvalidFilterFor(course)

\* C18 as claimed: once parse_sections has met an invalid section filter the process
\* has ended with a status that is not success, and the traversal is never begun
C18_InvalidFilterIsFatal ==
    InvalidFilterParsed =>
        /\ mn_exit.exited
        /\ mn_exit.status /= 0
        /\ ~Called("correct_urls")

\* C18: an invalid section filter is no error: parse_sections selects every section of
\* the course, nothing ends the process there, and correct_urls is called next as in a
\* run without a filter
C18_InvalidFilterSelectsAll ==
    InvalidFilterParsed =>
        /\ \A course \in DOMAIN mn_all_selections :
              InvalidFilterFor(course) => mn_selections[course] = mn_all_selections[course]
        /\ Called("_display_selections")
        /\ \/ mn_pc = "correct_urls" /\ ~mn_exit.exited
           \/ Called("correct_urls")

\* C18: parse_sections has met the filter 9, over a course of three sections and a
\* course of two, and main is about to call correct_urls with every section of both
C18_Witness ==
    /\ mn_pc = "correct_urls"
    /\ ~mn_exit.exited
    /\ mn_args.filter_section = Str(Decimal(9))
    /\ Len(mn_all_selections) = 2
    /\ Len(mn_all_selections[1]) = 3
    /\ Len(mn_all_selections[2]) = 2
    /\ mn_selections = mn_all_selections
    /\ InvalidFilterParsed

Statuses == {ExitCode[name] : name \in DOMAIN ExitCode}

\* the process has ended with this status of ExitCode, which stands for no other name
EndedWith(name) ==
    /\ mn_exit.exited
    /\ mn_exit.status = ExitCode[name]
    /\ \A other \in DOMAIN ExitCode : ExitCode[other] = ExitCode[name] => other = name

\* the run was asked for more than a listing of the file formats
Starts == ~mn_args.list_file_formats

UnknownPlatform == Starts /\ mn_args.platform \notin OPENEDX_SITES

\* after the password was asked for, the user name or the password is still empty
MissingCredentials ==
    /\ Starts /\ ~UnknownPlatform
    /\ mn_args.username = <<>> \/ NotGiven(mn_args.password)

WrongCredentials == Called("edx_login") /\ ~mn_resp

MissingCourseUrl ==
    Called("parse_courses") /\ ~mn_args.list_courses /\ Len(mn_args.course_urls) = 0

InvalidCourseUrl ==
    /\ Called("parse_courses") /\ ~mn_args.list_courses /\ Len(mn_args.course_urls) > 0
    /\ \A i \in 1..Len(mn_args.course_urls), j \in 1..Len(AvailableCourses) :
          mn_args.course_urls[i] /= AvailableCourses[j]

\* the sections of the selected courses hold no unit at all
NoDownloadableVideo == Called("parse_sections") /\ ~mn_units

\* C19 as claimed: a process that has ended after a startup failure has ended with the
\* status of that failure, each status of ExitCode standing for one name only; an
\* unknown platform before edx_get_headers and edx_login, missing credentials before
\* edx_login, wrong credentials before get_courses_info, a missing or an invalid
\* course url before get_available_sections, and a run that found no downloadable
\* video with NO_DOWNLOADABLE_VIDEO
C19_StartupFailures ==
    mn_exit.exited =>
        /\ UnknownPlatform =>
              /\ EndedWith("UNKNOWN_PLATFORM")
              /\ ~Called("edx_get_headers") /\ ~Called("edx_login")
              /\ ~Called("get_available_sections")
        /\ MissingCredentials =>
              /\ EndedWith("MISSING_CREDENTIALS")
              /\ ~Called("edx_login") /\ ~Called("get_available_sections")
        /\ WrongCredentials =>
              /\ EndedWith("WRONG_EMAIL_OR_PASSWORD")
              /\ ~Called("get_courses_info") /\ ~Called("get_available_sections")
        /\ MissingCourseUrl =>
              EndedWith("MISSING_COURSE_URL") /\ ~Called("get_available_sections")
        /\ InvalidCourseUrl =>
              EndedWith("INVALID_COURSE_URL") /\ ~Called("get_available_sections")
        /\ NoDownloadableVideo => EndedWith("NO_DOWNLOADABLE_VIDEO")

----------------------------------------------------------------------------
(* Properties of the pool of workers *)

Finished == {i \in 1..Len(ex_units) : ex_units[i] /= Pending}

\* the step is a worker's: it takes a task or finishes one
WorkerStep == ex_running' /= ex_running

\* C24: at most 16 extractions are in progress at any moment; once
\* extract_all_units_in_parallel has returned no task is queued or running and every
\* page has its units; remove_repeated_urls has not begun before that, and begins with
\* the returned mapping
PoolDiscipline ==
    /\ Cardinality(ex_running) <= 16
    /\ ex_pc \in {"parallel", "filtered"} =>
          /\ ex_running = {} /\ Queued = {}
          /\ Finished = 1..Len(ex_urls)
          /\ \A i \in 1..Len(ex_urls) : ex_units[i] = ex_pages[i]
    /\ dd_pc /= "idle" =>
          /\ ex_pc = "filtered"
          /\ all_units = [i \in 1..Len(ex_parallel) |-> ex_parallel[i].value]

----------------------------------------------------------------------------
(* Properties of crawl_units *)

\* the smallest index whose container is absent from the page
FirstGap(page) == CHOOSE k \in 0..MaxContainers :
                     k \notin page.ids /\ \A j \in 0..(k - 1) : j \in page.ids

\* C25 as claimed: crawl_units ends for every subsection page, never with an exception,
\* and gives the containers 0 .. k-1 in index order, k the smallest index absent from
\* the page: no None, the empty list when container 0 is absent, nothing after the
\* first gap
C25_CrawlUnits ==
    /\ cr_pc /= "raised"
    /\ cr_idx <= MaxContainers + 1
    /\ cr_pc = "returned" =>
          /\ cr_result.raised = ""
          /\ cr_result.value = [i \in 1..FirstGap(cr_page) |-> Div(i - 1)]
          /\ \A i \in 1..Len(cr_result.value) : cr_result.value[i] /= PyNone

====
